---- MODULE Spec2Model ----
(***************************************************************************)
(* A model of the log aggregation and file-watching engine:                *)
(*   - FileWatcherService (fileWatcher.service.js): subscriptions, the     *)
(*     bounded retry of handleWatcherError, stopWatching/startWatching;    *)
(*   - its debounce of change notifications (onFileChanged), with a clock; *)
(*   - LogAggregatorService (logAggregatorService.js): the result cache    *)
(*     and the filter / sort / paginate pipeline.                          *)
(* Spec is the watcher's life cycle, SpecDebounce the timed debounce,      *)
(* SpecAgg the aggregator's pipeline, SpecCache its cache.                 *)
(***************************************************************************)
EXTENDS Integers, Sequences, FiniteSets, TLC

VARIABLES
  \* ---- FileWatcherService: fields of the object
  isWatching,      \* this.isWatching
  watchers,        \* this.watchers: Map serviceName -> watcher (a subscription id)
  retryAttempts,   \* this.retryAttempts: Map serviceName -> number (a partial function)
  changeTimeouts,  \* this.changeTimeouts: debounceKey -> timer handle (a partial function)
  \* ---- the runtime around it
  subs,            \* chokidar watchers created and not closed: [id, svc, ready]
  nextSub,         \* the next subscription id
  retryTimers,     \* pending setTimeout(retry) callbacks: [svc][gen] -> count
  pendingConn,     \* testNetworkConnectivity() promises not yet settled
  pendingWatch,    \* watchService(svc) calls suspended at `await fs.pathExists`
  debounceTimers,  \* pending setTimeout(debounce) callbacks: [handle, svc, file, due]
  nextHandle,      \* the next timer handle
  now,             \* the clock, in seconds
  published,       \* broadcastToClients calls so far: <<type, svc>> -> count
  \* ---- observations of the run (written, never read, by the operations)
  stops,           \* completed stopWatching() calls; a retry timer's gen is its value at scheduling
  errorCalls,      \* handleWatcherError calls so far (all services)
  consecErrors,    \* per service: handleWatcherError calls since the last ready / stop
  hasFailed,       \* per service: WATCHER_FAILED published since the last startWatching
  pathNotFound,    \* per service: SERVICE_PATH_NOT_FOUND published since the last startWatching
  lastNotif,       \* per (svc, file): time of the last change notification, -1 when none
  notifs,          \* per (svc, file): change notifications so far
  bursts,          \* per (svc, file): bursts begun (a notification with none less than 3 s before it)
  passes,          \* per (svc, file): processFileChange calls
  lastPassDelay,   \* per (svc, file): at the last processFileChange, the time since the
                   \* last notification; -1 when none
  analyses,        \* per service: performBackgroundAnalysis calls suspended at their await
  seen,            \* per service, observed: the add and unlink notifications delivered
                   \* and the analyses that read a log with a CRITICAL entry
  \* ---- LogAggregatorService and the file system it reads
  fs,              \* basePath -> the directory: [exists, files]
  cache,           \* this.cache: Map cacheKey -> [data, timestamp]
  cnow,            \* Date.now(), in units of 20 s
  inflight,        \* getAggregatedLogs calls suspended in their awaits:
                   \* [id, n, q, cacheKey, executedAt]
  \* ---- observations of the aggregator's run
  epoch,           \* clearCache() calls so far
  calls,           \* the caching-enabled calls begun: [n, key, at, epoch, hit, data]
  stores,          \* the cache.set calls: [n, by, key, at, epoch, data]
  lastCall,        \* the call that returned last: [q, result, fromCache]; NoCall once
                   \* another is under way
  run,             \* the paging run in progress: [base, ids, next, done, groups, parsed]; NoRun once
                   \* a call is made that is not its next page
  \* ---- the services that keep no state
  applied,         \* the last call of a parser, a classifier or the file discovery:
                   \* [op, input, output]; NoCall before the first
  \* ---- UserAliasService: the storage file and the instances the services hold
  storageFile,     \* storage/user-aliases.json: the alias names of the user it holds
  aliasMaps,       \* per instance, this.userAliases: the alias names of the user
  saves,           \* fs.writeJson calls in flight: [by, data]
  kept,            \* observed: the alias names added and not deleted
  mutations        \* observed: addUserAlias, deleteAlias and updateAliasAccess calls so far

watcherVars == <<isWatching, watchers, retryAttempts, subs, nextSub, retryTimers,
                 pendingConn, pendingWatch, published, stops, errorCalls,
                 consecErrors, hasFailed, pathNotFound>>
debounceVars == <<changeTimeouts, debounceTimers, nextHandle, now, lastNotif,
                  notifs, bursts, passes, lastPassDelay, analyses, seen>>
aggVars == <<fs, cache, cnow, inflight, epoch, calls, stores, lastCall, run>>
extraVars == <<applied>>
aliasVars == <<storageFile, aliasMaps, saves, kept, mutations>>
vars == <<watcherVars, debounceVars, aggVars, extraVars, aliasVars>>

(***************************************************************************)
(* Program constants and the bounds of the model.                          *)
(***************************************************************************)
\* config.friskit.services: the watched services of the model (one of the five
\* configured ones; the services share nothing but isWatching and stopWatching).
Services == {"api"}
\* The keys of config.friskit.services.
ConfigServiceNames == {"api", "ui", "notification", "FtpAutomation", "FriskTradeAdapter"}
\* Log files of a service directory, named as path.basename(filePath, '.log') names them.
Files == {"app", "ui-app"}
maxRetries == 3
\* setTimeout(..., 3000) of onFileChanged, in seconds.
DebounceDelay == 3

MaxErrors == 5     \* handleWatcherError calls in a run
MaxStops == 1      \* stopWatching() calls in a run
MaxSubs == 3       \* chokidar watchers created in a run
MaxTime == 7       \* the clock's last second
MaxNotifs == 4     \* change notifications in a run

NoWatcher == 0
Gens == 0..MaxStops

(***************************************************************************)
(* JavaScript Map helpers (partial functions).                             *)
(***************************************************************************)
MapHas(m, k) == k \in DOMAIN m
MapSet(m, k, v) == [x \in (DOMAIN m) \cup {k} |-> IF x = k THEN v ELSE m[x]]
MapDelete(m, k) == [x \in (DOMAIN m) \ {k} |-> m[x]]
EmptyMap == [x \in {} |-> 0]

EventTypes == {"WATCHER_WARNING", "SERVICE_PATH_NOT_FOUND", "WATCHER_FAILED", "LOG_UPDATED",
               "FILE_ADDED", "FILE_DELETED", "ANALYSIS_UPDATE", "CRITICAL_ERROR_ALERT"}
EventKeys == ((EventTypes \ {"WATCHER_WARNING"}) \X Services) \cup {<<"WATCHER_WARNING", "-">>}
DebounceKeys == Services \X Files

\* broadcastToClients(message): the call is the publication.
broadcastToClients(pub, type, svc) == [pub EXCEPT ![<<type, svc>>] = @ + 1]

SubsOf(s) == {w \in subs : w.svc = s}

RECURSIVE SumUpTo(_, _)
SumUpTo(f, n) == IF n < 0 THEN 0 ELSE f[n] + SumUpTo(f, n - 1)
\* Pending retry timers of a service, of every generation.
RetryTimerCount(s) == SumUpTo(retryTimers[s], MaxStops)

(***************************************************************************)
(* LogAggregatorService: the data it works on.                             *)
(***************************************************************************)
\* UserAliasService.userAliases: Map userId -> aliases[], in insertion order. u3 has
\* lost its aliases (deleteAlias leaves the key with an empty array).
RegistryUsers == <<"u1", "u2", "u3">>
Registry ==
  [u \in {"u1", "u2", "u3"} |->
     CASE u = "u1" -> <<[aliasName |-> "a", basePath |-> "p1"],
                        [aliasName |-> "b", basePath |-> "p2"]>>
       [] u = "u2" -> <<[aliasName |-> "a", basePath |-> "p3"]>>
       [] OTHER -> << >>]
Paths == {"p1", "p2", "p3"}

\* Strings in the order of String.prototype.localeCompare and of the default
\* Array.prototype.sort (the two agree on these names).
NameOrder == <<"DEBUG", "ERROR", "INFO", "WARNING", "a", "a.log", "b", "b.log",
               "u1", "u2", "u3", "u9">>
StrRank(str) == CHOOSE i \in 1..Len(NameOrder) : NameOrder[i] = str
localeCompare(x, y) == StrRank(x) - StrRank(y)

\* Calendar dates (the part of an ISO timestamp before 'T'); Today is the date of
\* `new Date()`.
Today == "2025-09-01"
OtherDay == "2025-08-31"

\* A line of a log file: the timestamp its head matches one of the two full
\* date-time patterns of extractTimestamp with (an instant, in ms), or NoTimestamp
\* when no pattern matches; and the words of detectLogLevel it contains.
NoTimestamp == -1
LineErr1 == [ts |-> 1, words |-> {"error"}]
LineInfo1 == [ts |-> 1, words |-> {"info"}]
LineInfo2 == [ts |-> 2, words |-> {"info"}]
LineWarn2 == [ts |-> 2, words |-> {"warn"}]
LineBareErr == [ts |-> NoTimestamp, words |-> {"failed"}]
LineBare == [ts |-> NoTimestamp, words |-> {}]

\* A file of an alias directory, as fs.stat and fs.readFile see it.
File(name, mtime, day, readable, lines) ==
  [fileName |-> name, modified |-> mtime, modifiedDate |-> day,
   readable |-> readable, lines |-> lines]

\* The directories the model draws from: missing (fs.pathExists is false) or the
\* files in readdir order.
Dir(files) == [exists |-> TRUE, files |-> files]
Missing == [exists |-> FALSE, files |-> << >>]
DirsP1 == { Dir(<<File("a.log", 5, Today, TRUE, <<LineErr1, LineInfo2>>)>>),
            Dir(<<File("a.log", 5, Today, TRUE, <<LineBareErr, LineBare>>)>>),
            Dir(<<File("a.log", 5, Today, FALSE, <<LineErr1>>),
                  File("b.log", 6, Today, TRUE, <<LineWarn2, LineInfo1>>)>>),
            Dir(<<File("a.log", 5, Today, TRUE, <<LineInfo1, LineInfo1>>),
                  File("b.log", 6, Today, TRUE, <<LineInfo1>>)>>) }
DirsP2 == { Missing,
            Dir(<< >>),
            Dir(<<File("a.log", 7, Today, TRUE, <<LineInfo1>>)>>) }
DirsP3 == { Missing,
            Dir(<<File("b.log", 4, OtherDay, TRUE, <<LineErr1>>),
                  File("a.log", 8, Today, TRUE, <<LineErr1, LineWarn2>>)>>) }
FileSystems == {[p \in Paths |-> CASE p = "p1" -> d1 [] p = "p2" -> d2 [] OTHER -> d3] :
                  d1 \in DirsP1, d2 \in DirsP2, d3 \in DirsP3}

\* What Date.now() may advance by, in ms, while one call parses its lines.
MaxDrift == 1
\* No call of the model parses more lines than this.
MaxLines == 6
\* The offsets a first request may carry (a paging run goes on from there).
MaxOffset == 1
\* Bounds of SpecCache: the calls begun, the calls in flight, the clearCache()
\* calls, the clock (in units of 20 s).
MaxCalls == 3
MaxInflight == 2
MaxClears == 1
MaxClock == 3
\* `new Date()` during a call is after every timestamp written in the files.
NowBase == 10

(***************************************************************************)
(* Sequence helpers (Array.prototype methods).                             *)
(***************************************************************************)
RECURSIVE SeqFilterIdx(_, _, _)
\* The elements s[i] with keep[i], in order (Array.prototype.filter).
SeqFilterIdx(s, keep, i) ==
  IF i > Len(s) THEN << >>
  ELSE (IF keep[i] THEN <<s[i]>> ELSE << >>) \o SeqFilterIdx(s, keep, i + 1)

Includes(s, x) == \E i \in 1..Len(s) : s[i] = x

\* Strings in the order of their UTF-16 code units, the order of Array.prototype.sort()
\* with no comparator: upper case before lower case.
CodeUnitOrder ==
  <<"A", "CRITICAL", "DEBUG", "ERROR", "INFO", "U1", "WARNING", "a", "b", "error", "u1", "u2", "u3",
    "u9", "z">>
codeUnitCompare(x, y) ==
  (CHOOSE i \in 1..Len(CodeUnitOrder) : CodeUnitOrder[i] = x)
    - (CHOOSE i \in 1..Len(CodeUnitOrder) : CodeUnitOrder[i] = y)

\* Array.prototype.sort() with no comparator, on strings: insertion in the order of
\* the code units, an equal string going behind (the sort is stable).
RECURSIVE InsertString(_, _, _)
InsertString(s, n, x) ==
  IF n = 0 \/ codeUnitCompare(s[n], x) <= 0
  THEN SubSeq(s, 1, n) \o <<x>> \o SubSeq(s, n + 1, Len(s))
  ELSE InsertString(s, n - 1, x)

RECURSIVE SortStrings(_)
SortStrings(s) ==
  IF s = << >> THEN << >>
  ELSE InsertString(SortStrings(SubSeq(s, 1, Len(s) - 1)), Len(s) - 1, s[Len(s)])

Min(a, b) == IF a < b THEN a ELSE b
Max(a, b) == IF a > b THEN a ELSE b
\* Array.prototype.slice(from, to), both >= 0.
Slice(s, from, to) == SubSeq(s, Min(from, Len(s)) + 1, Min(to, Len(s)))

RECURSIVE Join(_, _)
\* Array.prototype.join(sep) on strings.
Join(s, sep) ==
  IF s = << >> THEN ""
  ELSE IF Len(s) = 1 THEN s[1] ELSE s[1] \o sep \o Join(Tail(s), sep)

(***************************************************************************)
(* SimpleLogService.                                                       *)
(***************************************************************************)
\* (a, b) => new Date(b.modified) - new Date(a.modified)
modifiedDesc(a, b) == b.modified - a.modified

\* matchingFiles.sort(modifiedDesc): x put into the sorted s[1..n], behind every file
\* it does not precede (the sort is stable).
RECURSIVE InsertFile(_, _, _)
InsertFile(s, n, x) ==
  IF n = 0 \/ modifiedDesc(s[n], x) <= 0
  THEN SubSeq(s, 1, n) \o <<x>> \o SubSeq(s, n + 1, Len(s))
  ELSE InsertFile(s, n - 1, x)

RECURSIVE SortFiles(_)
SortFiles(s) ==
  IF s = << >> THEN << >>
  ELSE InsertFile(SortFiles(SubSeq(s, 1, Len(s) - 1)), Len(s) - 1, s[Len(s)])

\* findTodaysFiles(basePath, targetDate): a failure when the path is missing, else
\* the files last modified on the date, newest first.
findTodaysFiles(dirs, basePath, targetDate) ==
  LET searchDate == IF targetDate = "null" THEN Today ELSE targetDate
      items == dirs[basePath].files
  IN IF ~dirs[basePath].exists
     THEN [success |-> FALSE, files |-> << >>]
     ELSE [success |-> TRUE,
           files |-> SortFiles(
                       SeqFilterIdx(items,
                                    [i \in 1..Len(items) |-> items[i].modifiedDate = searchDate], 1))]

\* readFileContent(filePath): the non-empty lines, or a failure.
readFileContent(file) ==
  IF file.readable
  THEN [success |-> TRUE, content |-> file.lines]
  ELSE [success |-> FALSE, content |-> << >>]

(***************************************************************************)
(* LogAggregatorService: the pure part.                                    *)
(***************************************************************************)
\* detectLogLevel(line)
detectLogLevel(line) ==
  IF line.words \cap {"error", "failed", "exception"} # {} THEN "ERROR"
  ELSE IF line.words \cap {"warn", "warning"} # {} THEN "WARNING"
  ELSE IF line.words \cap {"info", "success"} # {} THEN "INFO"
  ELSE "DEBUG"

\* config.errorDetection: the keywords of LogParserService.
criticalKeywords == {"fatal", "critical", "crash", "abort", "emergency", "panic"}
keywords ==
  {"error", "failed", "failure", "exception", "traceback", "warning", "timeout",
   "connection", "refused", "denied"}

\* LogParserService.detectLogLevel(message)
LogParserService_detectLogLevel(line) ==
  IF line.words \cap criticalKeywords # {} THEN "CRITICAL"
  ELSE IF line.words \cap keywords # {} THEN "ERROR"
  ELSE IF line.words \cap {"warning", "warn"} # {} THEN "WARNING"
  ELSE IF line.words \cap {"info", "starting", "success"} # {} THEN "INFO"
  ELSE "DEBUG"

\* DynamicLogService.detectLogLevel(message): `patterns`, in the order of its keys.
patterns ==
  <<[level |-> "CRITICAL",
     keywords |-> {"fatal", "critical", "crash", "abort", "emergency", "panic"}],
    [level |-> "ERROR",
     keywords |-> {"error", "failed", "failure", "exception", "traceback", "stderr"}],
    [level |-> "WARNING",
     keywords |-> {"warning", "warn", "deprecated", "timeout", "retry"}],
    [level |-> "INFO",
     keywords |-> {"info", "starting", "started", "success", "completed", "finished"}]>>

DynamicLogService_detectLogLevel(line) ==
  IF \E i \in 1..Len(patterns) : line.words \cap patterns[i].keywords # {}
  THEN patterns[CHOOSE i \in 1..Len(patterns) :
                  /\ line.words \cap patterns[i].keywords # {}
                  /\ \A j \in 1..(i - 1) : line.words \cap patterns[j].keywords = {}].level
  ELSE "DEBUG"

\* extractTimestamp(line): the matched timestamp, else `new Date().toISOString()`,
\* the clock's reading when the line is parsed.
extractTimestamp(line, clock) == IF line.ts # NoTimestamp THEN line.ts ELSE clock

\* this.userAliasService.getUserAliases(userId)
getUserAliases(userId) == IF userId \in DOMAIN Registry THEN Registry[userId] ELSE << >>

\* id: `${userId}-${alias.aliasName}-${file.fileName}-${index}`
logEntryId(userId, aliasName, fileName, index) ==
  userId \o "-" \o aliasName \o "-" \o fileName \o "-" \o ToString(index)

RECURSIVE ParseLines(_, _, _, _, _, _, _, _)
\* contentResult.content.forEach((line, index) => userLogs.push(logEntry)); the call
\* has parsed `parsed` lines before this user's, and readings[k] is what the clock
\* has advanced by when the call parses its k-th line.
ParseLines(userId, alias, file, content, index, userLogs, readings, parsed) ==
  IF index >= Len(content) THEN userLogs
  ELSE ParseLines(userId, alias, file, content, index + 1,
                  Append(userLogs,
                         [id |-> logEntryId(userId, alias.aliasName, file.fileName, index),
                          userId |-> userId,
                          aliasName |-> alias.aliasName,
                          fileName |-> file.fileName,
                          lineNumber |-> index + 1,
                          timestamp |-> extractTimestamp(content[index + 1],
                                          NowBase + readings[parsed + Len(userLogs) + 1]),
                          logLevel |-> detectLogLevel(content[index + 1]),
                          fileModified |-> file.modified]),
                  readings, parsed)

\* A mutant of ReadFile: a file that cannot be read loses the user what was read.
ReadFile_DropOnFailure(userId, alias, file, contentResult, st, readings, parsed) ==
  IF contentResult.success
  THEN [logs |-> ParseLines(userId, alias, file, contentResult.content, 0, st.logs,
                            readings, parsed),
        filesCount |-> st.filesCount + 1]
  ELSE [logs |-> << >>, filesCount |-> 0]

\* The body of `for (const file of filesResult.files)`: the entries of a file that
\* was read are pushed and it is counted; a file that cannot be read is skipped.
ReadFile(userId, alias, file, contentResult, st, readings, parsed) ==
  IF contentResult.success
  THEN [logs |-> ParseLines(userId, alias, file, contentResult.content, 0, st.logs,
                            readings, parsed),
        filesCount |-> st.filesCount + 1]
  ELSE st

RECURSIVE ReadFiles(_, _, _, _, _, _, _)
\* for (const file of filesResult.files)
ReadFiles(userId, alias, files, i, st, readings, parsed) ==
  IF i > Len(files) THEN st
  ELSE ReadFiles(userId, alias, files, i + 1,
                 ReadFile(userId, alias, files[i], readFileContent(files[i]), st,
                          readings, parsed),
                 readings, parsed)

\* The body of `for (const alias of targetAliases)`: an alias whose discovery fails
\* or finds nothing is skipped.
ReadAlias(userId, alias, filesResult, st, readings, parsed) ==
  IF filesResult.success /\ Len(filesResult.files) > 0
  THEN ReadFiles(userId, alias, filesResult.files, 1, st, readings, parsed)
  ELSE st

RECURSIVE ReadAliases(_, _, _, _, _, _, _, _)
\* for (const alias of targetAliases)
ReadAliases(userId, targetAliases, i, date, dirs, st, readings, parsed) ==
  IF i > Len(targetAliases) THEN st
  ELSE ReadAliases(userId, targetAliases, i + 1, date, dirs,
                   ReadAlias(userId, targetAliases[i],
                             findTodaysFiles(dirs, targetAliases[i].basePath, date),
                             st, readings, parsed),
                   readings, parsed)

\* A mutant of FilterAliases: the alias names of the query are ignored.
FilterAliases_KeepAll(userAliases, aliasNames) == userAliases

\* The aliases processUserLogs reads: all of the user's, or those named.
FilterAliases(userAliases, aliasNames) ==
  IF Len(aliasNames) > 0
  THEN SeqFilterIdx(userAliases,
                    [i \in 1..Len(userAliases) |->
                       Includes(aliasNames, userAliases[i].aliasName)], 1)
  ELSE userAliases

\* The success result of processUserLogs.
UserLogs(st) == [success |-> TRUE, logs |-> st.logs, filesCount |-> st.filesCount]

\* processUserLogs from `if (targetAliases.length === 0)` on.
ProcessAliases(userId, date, targetAliases, dirs, readings, parsed) ==
  IF Len(targetAliases) = 0
  THEN [success |-> FALSE, logs |-> << >>, filesCount |-> 0]
  ELSE UserLogs(ReadAliases(userId, targetAliases, 1, date, dirs,
                            [logs |-> << >>, filesCount |-> 0], readings, parsed))

\* processUserLogs(userId, {date, aliasNames, logLevels}): a user with no alias, or
\* none of those named, is a failure.
processUserLogs(userId, date, aliasNames, dirs, readings, parsed) ==
  ProcessAliases(userId, date, FilterAliases(getUserAliases(userId), aliasNames), dirs,
                 readings, parsed)

\* if (userResult.success) {...}: the result of a user who succeeded is added.
AddUser(agg, userResult) ==
  IF userResult.success
  THEN [logs |-> agg.logs \o userResult.logs,
        totalFiles |-> agg.totalFiles + userResult.filesCount,
        processedUsers |-> agg.processedUsers + 1]
  ELSE agg

RECURSIVE ProcessUsers(_, _, _, _, _, _)
\* for (const userId of targetUsers)
ProcessUsers(targetUsers, i, q, dirs, agg, readings) ==
  IF i > Len(targetUsers) THEN agg
  ELSE ProcessUsers(targetUsers, i + 1, q, dirs,
                    AddUser(agg, processUserLogs(targetUsers[i], q.date,
                                                 SortStrings(q.aliasNames), dirs,
                                                 readings, Len(agg.logs))),
                    readings)

levelPriority(level) ==
  CASE level = "ERROR" -> 4 [] level = "WARNING" -> 3 [] level = "INFO" -> 2
    [] level = "DEBUG" -> 1 [] OTHER -> 0

byTimestamp(a, b) == a.timestamp - b.timestamp
byUser(a, b) == localeCompare(a.userId, b.userId)
byAlias(a, b) == localeCompare(a.aliasName, b.aliasName)
byLevel(a, b) == levelPriority(a.logLevel) - levelPriority(b.logLevel)
byFile(a, b) == localeCompare(a.fileName, b.fileName)

\* The comparison of sortLogs for a sortBy, before the multiplier.
comparison(sortBy, a, b) ==
  CASE sortBy = "timestamp" -> byTimestamp(a, b)
    [] sortBy = "user" -> byUser(a, b)
    [] sortBy = "alias" -> byAlias(a, b)
    [] sortBy = "level" -> byLevel(a, b)
    [] sortBy = "file" -> byFile(a, b)
    [] OTHER -> byTimestamp(a, b)

\* logs.sort((a, b) => comparison * multiplier): x put into the sorted s[1..n], behind
\* every entry it does not precede (the sort is stable: V8's TimSort).
RECURSIVE InsertLog(_, _, _, _, _)
InsertLog(s, n, x, sortBy, multiplier) ==
  IF n = 0 \/ comparison(sortBy, s[n], x) * multiplier <= 0
  THEN SubSeq(s, 1, n) \o <<x>> \o SubSeq(s, n + 1, Len(s))
  ELSE InsertLog(s, n - 1, x, sortBy, multiplier)

RECURSIVE SortLogsBy(_, _, _)
SortLogsBy(s, sortBy, multiplier) ==
  IF s = << >> THEN << >>
  ELSE InsertLog(SortLogsBy(SubSeq(s, 1, Len(s) - 1), sortBy, multiplier), Len(s) - 1,
                 s[Len(s)], sortBy, multiplier)

\* sortLogs(logs, sortBy, sortOrder)
sortLogs(logs, sortBy, sortOrder) ==
  SortLogsBy(logs, sortBy, IF sortOrder = "desc" THEN -1 ELSE 1)

\* The query as generateCacheKey leaves it: its three arrays sorted in place.
\* this.userAliasService.getAllUsers() when no user is named.
TargetUsers(q) == IF Len(q.userIds) > 0 THEN SortStrings(q.userIds) ELSE RegistryUsers

\* `Apply log level filter if specified`
FilterLevels(logs, logLevels) ==
  IF Len(logLevels) > 0
  THEN SeqFilterIdx(logs, [i \in 1..Len(logs) |-> Includes(logLevels, logs[i].logLevel)], 1)
  ELSE logs

\* new Date(timestamp).getHours() and .toISOString().split('T')[0]: the instants of
\* the model are hours of the current day.
getHours(timestamp) == timestamp % 24
isoDate(timestamp) == Today

\* The switch of groupLogs: the key of the group an entry goes to.
groupKey(log, groupBy) ==
  CASE groupBy = "user" -> log.userId
    [] groupBy = "alias" -> log.userId \o "/" \o log.aliasName
    [] groupBy = "level" -> log.logLevel
    [] groupBy = "file" -> log.fileName
    [] groupBy = "hour" -> ToString(getHours(log.timestamp)) \o ":00"
    [] groupBy = "date" -> isoDate(log.timestamp)
    [] OTHER -> "all"

\* grouped[key].filter(log => log.logLevel === level).length
CountLevel(logs, level) == Cardinality({i \in 1..Len(logs) : logs[i].logLevel = level})

\* `Add counts to each group`
Group(logs) ==
  [logs |-> logs, count |-> Len(logs), errors |-> CountLevel(logs, "ERROR"),
   warnings |-> CountLevel(logs, "WARNING")]

\* groupLogs(logs, groupBy): each entry is pushed, in the order of logs, to the group
\* of its key.
groupLogs(logs, groupBy) ==
  [key \in {groupKey(logs[i], groupBy) : i \in 1..Len(logs)} |->
     Group(SeqFilterIdx(logs, [i \in 1..Len(logs) |-> groupKey(logs[i], groupBy) = key], 1))]

\* metadata.groupedData: `if (groupBy && includeMetadata)` the groups of the filtered
\* and sorted entries, else the empty object it was created as.
GroupedData(q, sorted) ==
  IF q.groupBy # "" /\ q.includeMetadata THEN groupLogs(sorted, q.groupBy) ELSE EmptyMap

\* The result of getAggregatedLogs: the page and the metadata. `sorted` is the whole
\* filtered and sorted sequence (what groupLogs receives and the page is sliced from).
Result(q, targetUsers, agg, sorted, executedAt) ==
  [success |-> TRUE,
   logs |-> Slice(sorted, q.offset, q.offset + q.limit),
   sorted |-> sorted,
   totalUsers |-> Len(targetUsers),
   processedUsers |-> agg.processedUsers,
   totalFiles |-> agg.totalFiles,
   totalLogs |-> Len(sorted),
   groupedData |-> GroupedData(q, sorted),
   beforeFiltering |-> Len(agg.logs),
   total |-> Len(sorted),
   hasMore |-> q.offset + q.limit < Len(sorted),
   config |-> q,
   executedAt |-> executedAt]

\* getAggregatedLogs from `Apply log level filter` on.
FilterSortPage(q, targetUsers, agg, executedAt) ==
  Result(q, targetUsers, agg,
         sortLogs(FilterLevels(agg.logs, q.logLevels), q.sortBy, q.sortOrder), executedAt)

\* getAggregatedLogs from `if (targetUsers.length === 0)` on.
AggregateUsers(q, targetUsers, dirs, readings, executedAt) ==
  IF Len(targetUsers) = 0
  THEN [success |-> FALSE]
  ELSE FilterSortPage(q, targetUsers,
                      ProcessUsers(targetUsers, 1, q, dirs,
                                   [logs |-> << >>, totalFiles |-> 0, processedUsers |-> 0],
                                   readings),
                      executedAt)

\* getAggregatedLogs(config) from `Determine users to process` on.
Aggregate(q, dirs, readings, executedAt) ==
  AggregateUsers(q, TargetUsers(q), dirs, readings, executedAt)

\* String(n) for the numbers of a cache key.
NumStr(n) == ToString(n)

\* generateCacheKey(config)
generateCacheKey(q) ==
  LET orElse(s, d) == IF s = "" THEN d ELSE s
  IN Join(<<orElse(Join(SortStrings(q.userIds), ","), "all"),
            orElse(Join(SortStrings(q.aliasNames), ","), "all"),
            IF q.date = "null" THEN "current" ELSE q.date,
            orElse(Join(SortStrings(q.logLevels), ","), "all"),
            NumStr(IF q.limit = 0 THEN 1000 ELSE q.limit),
            NumStr(q.offset)>>, "|")

(***************************************************************************)
(* LogAggregatorService: the cache and the state of a new service.         *)
(***************************************************************************)
\* this.cacheTimeout = 60000, in the clock's unit of 20 s
cacheTimeout == 3
NoCall == [none |-> TRUE]
NoRun == [none |-> TRUE]

\* The readings of Date.now() while a call parses its lines: it never goes back.
ClockReadings ==
  {r \in [1..MaxLines -> 0..MaxDrift] : \A i \in 1..(MaxLines - 1) : r[i] <= r[i + 1]}

\* A mutant of CacheFresh: an entry lives a third less.
CacheFresh_Short(cached, t) == t - cached.timestamp < cacheTimeout - 1

\* A mutant of CacheFresh: an entry aged exactly the timeout is still served.
CacheFresh_Inclusive(cached, t) == t - cached.timestamp <= cacheTimeout

\* Date.now() - cached.timestamp < this.cacheTimeout
CacheFresh(cached, t) == t - cached.timestamp < cacheTimeout

\* The next number in the order of the observed calls and stores.
Ticket == Cardinality(calls) + Cardinality(stores) + 1
\* The ids of the entries of a page.
PageIds(result) == [i \in 1..Len(result.logs) |-> result.logs[i].id]

\* The services that hold a UserAliasService of their own (two of the five
\* `new UserAliasService()`); each loaded the storage file when it was constructed.
Instances == {"aggregator", "dashboard"}
\* The alias names of the user of the model, and those in the file at the start.
AliasNames == {"a", "b"}
StoredAliases == {"a"}

AggIdle(dirs) ==
  /\ fs = dirs
  /\ cache = EmptyMap
  /\ cnow = 0
  /\ inflight = {}
  /\ epoch = 0
  /\ calls = {}
  /\ stores = {}
  /\ lastCall = NoCall
  /\ run = NoRun
  /\ applied = NoCall
  /\ storageFile = StoredAliases
  /\ aliasMaps = [i \in Instances |-> StoredAliases]
  /\ saves = {}
  /\ kept = StoredAliases
  /\ mutations = 0

\* The files SpecCache works on.
CacheFs == [p \in Paths |->
              CASE p = "p1" -> Dir(<<File("a.log", 5, Today, TRUE, <<LineErr1, LineInfo2>>)>>)
                [] OTHER -> Missing]

(***************************************************************************)
(* Init: the state after `new FileWatcherService()`.                       *)
(***************************************************************************)
WatcherInit ==
  /\ isWatching = FALSE
  /\ watchers = [s \in Services |-> NoWatcher]
  /\ retryAttempts = EmptyMap
  /\ subs = {}
  /\ nextSub = 1
  /\ retryTimers = [s \in Services |-> [g \in Gens |-> 0]]
  /\ pendingConn = 0
  /\ pendingWatch = [s \in Services |-> 0]
  /\ published = [k \in EventKeys |-> 0]
  /\ stops = 0
  /\ errorCalls = 0
  /\ consecErrors = [s \in Services |-> 0]
  /\ hasFailed = [s \in Services |-> FALSE]
  /\ pathNotFound = [s \in Services |-> FALSE]

DebounceInit ==
  /\ changeTimeouts = EmptyMap
  /\ debounceTimers = {}
  /\ nextHandle = 1
  /\ now = 0
  /\ lastNotif = [k \in DebounceKeys |-> -1]
  /\ notifs = [k \in DebounceKeys |-> 0]
  /\ bursts = [k \in DebounceKeys |-> 0]
  /\ passes = [k \in DebounceKeys |-> 0]
  /\ lastPassDelay = [k \in DebounceKeys |-> -1]
  /\ analyses = [s \in Services |-> 0]
  /\ seen = [s \in Services |-> [add |-> 0, unlink |-> 0, critical |-> 0]]

Init == WatcherInit /\ DebounceInit /\ AggIdle(CacheFs)

(***************************************************************************)
(* FileWatcherService: the operations.                                     *)
(***************************************************************************)

\* A mutant of handleWatcherError: the limit is tested with > instead of >=.
handleWatcherError_Late(s) ==
  LET currentRetries == IF MapHas(retryAttempts, s) THEN retryAttempts[s] ELSE 0 IN
  /\ errorCalls' = errorCalls + 1
  /\ consecErrors' = [consecErrors EXCEPT ![s] = @ + 1]
  /\ IF currentRetries > maxRetries
     THEN /\ retryAttempts' = MapDelete(retryAttempts, s)
          /\ published' = broadcastToClients(published, "WATCHER_FAILED", s)
          /\ hasFailed' = [hasFailed EXCEPT ![s] = TRUE]
          /\ UNCHANGED retryTimers
     ELSE /\ retryAttempts' = MapSet(retryAttempts, s, currentRetries + 1)
          /\ retryTimers' = [retryTimers EXCEPT ![s][stops] = @ + 1]
          /\ UNCHANGED <<published, hasFailed>>

\* handleWatcherError(serviceName, error): the caller leaves the other variables.
handleWatcherError(s) ==
  LET currentRetries == IF MapHas(retryAttempts, s) THEN retryAttempts[s] ELSE 0 IN
  /\ errorCalls' = errorCalls + 1
  /\ consecErrors' = [consecErrors EXCEPT ![s] = @ + 1]
  /\ IF currentRetries >= maxRetries
     THEN /\ retryAttempts' = MapDelete(retryAttempts, s)
          /\ published' = broadcastToClients(published, "WATCHER_FAILED", s)
          /\ hasFailed' = [hasFailed EXCEPT ![s] = TRUE]
          /\ UNCHANGED retryTimers
     ELSE /\ retryAttempts' = MapSet(retryAttempts, s, currentRetries + 1)
          \* setTimeout(() => {...}, this.retryDelay): the handle is not kept
          /\ retryTimers' = [retryTimers EXCEPT ![s][stops] = @ + 1]
          /\ UNCHANGED <<published, hasFailed>>

\* startWatching(): returns at once when already watching; otherwise sets the flag
\* and leaves testNetworkConnectivity() in flight.
StartWatching ==
  IF isWatching
  THEN UNCHANGED vars
  ELSE /\ isWatching' = TRUE
       /\ pendingConn' = pendingConn + 1
       /\ hasFailed' = [s \in Services |-> FALSE]
       /\ pathNotFound' = [s \in Services |-> FALSE]
       /\ UNCHANGED <<watchers, retryAttempts, subs, nextSub, retryTimers, pendingWatch,
                      published, stops, errorCalls, consecErrors, debounceVars, aggVars, extraVars, aliasVars>>

\* The .then() of testNetworkConnectivity(): a warning, or watchService for every
\* service, each of which runs up to its `await fs.pathExists(watchPath)`.
ConnectivityDone(accessible) ==
  /\ pendingConn > 0
  /\ pendingConn' = pendingConn - 1
  /\ IF accessible
     THEN /\ pendingWatch' = [s \in Services |-> pendingWatch[s] + 1]
          /\ UNCHANGED published
     ELSE /\ published' = broadcastToClients(published, "WATCHER_WARNING", "-")
          /\ UNCHANGED pendingWatch
  /\ UNCHANGED <<isWatching, watchers, retryAttempts, subs, nextSub, retryTimers,
                 stops, errorCalls, consecErrors, hasFailed, pathNotFound,
                 debounceVars, aggVars, extraVars, aliasVars>>

\* watchService(serviceName, serviceConfig) after its await: the path is missing,
\* chokidar.watch throws (the catch calls handleWatcherError), or a new watcher is
\* created and put in the map over whatever was there.
WatchServiceResume(s, outcome) ==
  /\ pendingWatch[s] > 0
  /\ pendingWatch' = [pendingWatch EXCEPT ![s] = @ - 1]
  /\ CASE outcome = "nopath" ->
            /\ published' = broadcastToClients(published, "SERVICE_PATH_NOT_FOUND", s)
            /\ pathNotFound' = [pathNotFound EXCEPT ![s] = TRUE]
            /\ UNCHANGED <<watchers, retryAttempts, subs, nextSub, retryTimers,
                           errorCalls, consecErrors, hasFailed>>
       [] outcome = "throw" ->
            /\ errorCalls < MaxErrors
            /\ handleWatcherError(s)
            /\ UNCHANGED <<watchers, subs, nextSub, pathNotFound>>
       [] OTHER ->
            /\ nextSub <= MaxSubs
            /\ subs' = subs \cup {[id |-> nextSub, svc |-> s, ready |-> FALSE]}
            /\ watchers' = [watchers EXCEPT ![s] = nextSub]
            /\ nextSub' = nextSub + 1
            /\ UNCHANGED <<retryAttempts, retryTimers, published, errorCalls,
                           consecErrors, hasFailed, pathNotFound>>
  /\ UNCHANGED <<isWatching, pendingConn, stops, debounceVars, aggVars, extraVars, aliasVars>>

\* .on('ready'): the retry counter of the service is reset.
WatcherReady(w) ==
  /\ w \in subs
  /\ ~w.ready
  /\ subs' = (subs \ {w}) \cup {[w EXCEPT !.ready = TRUE]}
  /\ retryAttempts' = MapDelete(retryAttempts, w.svc)
  /\ consecErrors' = [consecErrors EXCEPT ![w.svc] = 0]
  /\ UNCHANGED <<isWatching, watchers, nextSub, retryTimers, pendingConn, pendingWatch,
                 published, stops, errorCalls, hasFailed, pathNotFound,
                 debounceVars, aggVars, extraVars, aliasVars>>

\* .on('error') of any open watcher of the service.
WatcherError(w) ==
  /\ w \in subs
  /\ errorCalls < MaxErrors
  /\ handleWatcherError(w.svc)
  /\ UNCHANGED <<isWatching, watchers, subs, nextSub, pendingConn, pendingWatch,
                 stops, pathNotFound, debounceVars, aggVars, extraVars, aliasVars>>

\* The retry callback of handleWatcherError, scheduled in generation g.
RetryTimerFire(s, g) ==
  /\ retryTimers[s][g] > 0
  /\ retryTimers' = [retryTimers EXCEPT ![s][g] = @ - 1]
  /\ IF MapHas(retryAttempts, s) /\ retryAttempts[s] <= maxRetries
     THEN pendingWatch' = [pendingWatch EXCEPT ![s] = @ + 1]
     ELSE UNCHANGED pendingWatch
  /\ UNCHANGED <<isWatching, watchers, retryAttempts, subs, nextSub, pendingConn,
                 published, stops, errorCalls, consecErrors, hasFailed, pathNotFound,
                 debounceVars, aggVars, extraVars, aliasVars>>

\* A mutant of StopWatching: the pending debounce timers are left to fire.
StopWatching_KeepTimers ==
  IF ~isWatching
  THEN UNCHANGED vars
  ELSE /\ stops < MaxStops
       /\ changeTimeouts' = EmptyMap
       /\ subs' = {w \in subs : watchers[w.svc] # w.id}
       /\ watchers' = [s \in Services |-> NoWatcher]
       /\ retryAttempts' = EmptyMap
       /\ isWatching' = FALSE
       /\ stops' = stops + 1
       /\ consecErrors' = [s \in Services |-> 0]
       /\ UNCHANGED <<nextSub, retryTimers, pendingConn, pendingWatch, published,
                      errorCalls, hasFailed, pathNotFound, debounceTimers, nextHandle,
                      now, lastNotif, notifs, bursts, passes, lastPassDelay, analyses, seen,
                      aggVars, extraVars, aliasVars>>

\* stopWatching(): clears the debounce timers, closes the watchers of the map,
\* clears both maps. The retry timers have no handle to clear.
StopWatching ==
  IF ~isWatching
  THEN UNCHANGED vars
  ELSE /\ stops < MaxStops
       /\ debounceTimers' = {t \in debounceTimers :
                               \A k \in DOMAIN changeTimeouts : changeTimeouts[k] # t.handle}
       /\ changeTimeouts' = EmptyMap
       /\ subs' = {w \in subs : watchers[w.svc] # w.id}
       /\ watchers' = [s \in Services |-> NoWatcher]
       /\ retryAttempts' = EmptyMap
       /\ isWatching' = FALSE
       /\ stops' = stops + 1
       /\ consecErrors' = [s \in Services |-> 0]
       /\ UNCHANGED <<nextSub, retryTimers, pendingConn, pendingWatch, published,
                      errorCalls, hasFailed, pathNotFound, nextHandle, now, lastNotif, notifs,
                      bursts, passes, lastPassDelay, analyses, seen, aggVars, extraVars, aliasVars>>

Next ==
  \/ StartWatching
  \/ \E accessible \in BOOLEAN : ConnectivityDone(accessible)
  \/ \E s \in Services, outcome \in {"nopath", "throw", "ok"} : WatchServiceResume(s, outcome)
  \/ \E w \in subs : WatcherReady(w)
  \/ \E w \in subs : WatcherError(w)
  \/ \E s \in Services, g \in Gens : RetryTimerFire(s, g)
  \/ StopWatching

Spec == Init /\ [][Next]_vars

(***************************************************************************)
(* The debounce of change notifications, with the clock.                   *)
(***************************************************************************)

\* A mutant of debounceKey: one debounce slot per service directory.
debounceKey_PerService(s, fileName) == s

\* const debounceKey = `${serviceName}-${fileName}`
debounceKey(s, fileName) == s \o "-" \o fileName

\* clearTimeout(handle): the pending timers without the one of that handle.
clearTimeout(timers, handle) == {t \in timers : t.handle # handle}

\* A debounce timer is due: Node runs due timers (the timers phase of the event
\* loop) before it delivers an I/O notification or lets a second pass.
TimerDue == \E t \in debounceTimers : t.due <= now

\* onFileChanged(serviceName, filePath), called by an open watcher of the service:
\* clears the timer kept under the key and keeps a new one, 3 s from now.
OnFileChanged(s, f) ==
  LET key == debounceKey(s, f)
      cleared == IF MapHas(changeTimeouts, key)
                 THEN clearTimeout(debounceTimers, changeTimeouts[key])
                 ELSE debounceTimers
  IN
  /\ SubsOf(s) # {}
  /\ nextHandle <= MaxNotifs
  /\ ~TimerDue
  /\ debounceTimers' = cleared \cup {[handle |-> nextHandle, svc |-> s, file |-> f,
                                       due |-> now + DebounceDelay]}
  /\ changeTimeouts' = MapSet(changeTimeouts, key, nextHandle)
  /\ nextHandle' = nextHandle + 1
  /\ notifs' = [notifs EXCEPT ![<<s, f>>] = @ + 1]
  /\ bursts' = [bursts EXCEPT ![<<s, f>>] =
                   IF lastNotif[<<s, f>>] = -1 \/ now - lastNotif[<<s, f>>] >= DebounceDelay
                   THEN @ + 1 ELSE @]
  /\ lastNotif' = [lastNotif EXCEPT ![<<s, f>>] = now]
  /\ UNCHANGED <<watcherVars, now, passes, lastPassDelay, analyses, seen, aggVars, extraVars, aliasVars>>

\* The debounce callback: processFileChange(serviceName, fileName), which always finds
\* a date (extractDateFromFilename falls back to today), publishes LOG_UPDATED and
\* calls performBackgroundAnalysis, which runs up to its await and is not awaited.
DebounceFire(t) ==
  /\ t \in debounceTimers
  /\ t.due <= now
  /\ debounceTimers' = debounceTimers \ {t}
  /\ published' = broadcastToClients(published, "LOG_UPDATED", t.svc)
  /\ passes' = [passes EXCEPT ![<<t.svc, t.file>>] = @ + 1]
  /\ lastPassDelay' = [lastPassDelay EXCEPT ![<<t.svc, t.file>>] = now - lastNotif[<<t.svc, t.file>>]]
  /\ analyses' = [analyses EXCEPT ![t.svc] = @ + 1]
  /\ UNCHANGED <<isWatching, watchers, retryAttempts, subs, nextSub, retryTimers,
                 pendingConn, pendingWatch, stops, errorCalls, consecErrors, hasFailed,
                 pathNotFound, changeTimeouts, nextHandle, now, lastNotif, notifs, bursts,
                 seen, aggVars, extraVars, aliasVars>>

\* A second passes.
Tick ==
  /\ now < MaxTime
  /\ ~TimerDue
  /\ now' = now + 1
  /\ UNCHANGED <<watcherVars, changeTimeouts, debounceTimers, nextHandle, lastNotif,
                 notifs, bursts, passes, lastPassDelay, analyses, seen, aggVars, extraVars, aliasVars>>

\* The watcher once every service is being watched and ready (startWatching, the
\* connectivity test, watchService and 'ready' for each service).
ReadyIds == CHOOSE ids \in [Services -> 1..Cardinality(Services)] :
              \A s1, s2 \in Services : ids[s1] = ids[s2] => s1 = s2
ReadyInit ==
  /\ isWatching = TRUE
  /\ watchers = ReadyIds
  /\ subs = {[id |-> ReadyIds[s], svc |-> s, ready |-> TRUE] : s \in Services}
  /\ nextSub = Cardinality(Services) + 1
  /\ retryAttempts = EmptyMap
  /\ retryTimers = [s \in Services |-> [g \in Gens |-> 0]]
  /\ pendingConn = 0
  /\ pendingWatch = [s \in Services |-> 0]
  /\ published = [k \in EventKeys |-> 0]
  /\ stops = 0
  /\ errorCalls = 0
  /\ consecErrors = [s \in Services |-> 0]
  /\ hasFailed = [s \in Services |-> FALSE]
  /\ pathNotFound = [s \in Services |-> FALSE]

InitDebounce == ReadyInit /\ DebounceInit /\ AggIdle(CacheFs)

NextDebounce ==
  \/ \E s \in Services, f \in Files : OnFileChanged(s, f)
  \/ \E t \in debounceTimers : DebounceFire(t)
  \/ Tick

SpecDebounce == InitDebounce /\ [][NextDebounce]_vars

(***************************************************************************)
(* SpecStop: stopWatching() and startWatching() among change notifications, *)
(* debounce timers and watcher errors, from a new service or from one that *)
(* watches every service.                                                  *)
(***************************************************************************)
InitStop == Init \/ InitDebounce

NextStop ==
  \/ NextDebounce
  \/ \E w \in subs : WatcherError(w)
  \/ StartWatching
  \/ StopWatching

SpecStop == InitStop /\ [][NextStop]_vars

(***************************************************************************)
(* LogAggregatorService: the operations.                                   *)
(***************************************************************************)
\* The query asks for the next page of the paging run in progress.
ContinuesRun(q) ==
  run # NoRun /\ ~run.done /\ q = [run.base EXCEPT !.offset = run.next]

\* getAggregatedLogs(config) between generateCacheKey and its first await: either
\* the cached payload is returned at once or the aggregation is under way.
LookUp(q, cacheKey, slot, ticket) ==
  IF q.enableCache /\ MapHas(cache, cacheKey) /\ CacheFresh(cache[cacheKey], cnow)
  THEN /\ lastCall' = [q |-> q, result |-> cache[cacheKey].data, fromCache |-> TRUE]
       /\ calls' = calls \cup {[n |-> ticket, key |-> cacheKey, at |-> cnow,
                                epoch |-> epoch, hit |-> TRUE,
                                data |-> cache[cacheKey].data]}
       /\ run' = NoRun
       /\ UNCHANGED inflight
  ELSE /\ inflight' = inflight \cup
                        {[id |-> slot, n |-> IF q.enableCache THEN ticket ELSE 0,
                          q |-> q, cacheKey |-> cacheKey, executedAt |-> cnow]}
       /\ calls' = IF q.enableCache
                   THEN calls \cup {[n |-> ticket, key |-> cacheKey, at |-> cnow,
                                     epoch |-> epoch, hit |-> FALSE, data |-> NoCall]}
                   ELSE calls
       /\ lastCall' = NoCall
       /\ run' = IF ContinuesRun(q) THEN run ELSE NoRun

\* getAggregatedLogs(config) up to its first await.
BeginCall(q) ==
  /\ LookUp(q, generateCacheKey(q),
            CHOOSE i \in 1..(Cardinality(inflight) + 1) : \A c \in inflight : c.id # i,
            Ticket)
  /\ UNCHANGED <<fs, cache, cnow, epoch, stores, watcherVars, debounceVars, extraVars, aliasVars>>

\* getAggregatedLogs(config) once the result is built: it is stored when caching is
\* enabled, and returned.
Respond(c, q, result, ticket) ==
  /\ IF q.enableCache /\ result.success
     THEN /\ cache' = MapSet(cache, c.cacheKey, [data |-> result, timestamp |-> cnow])
          /\ stores' = stores \cup {[n |-> ticket, by |-> c.n, key |-> c.cacheKey,
                                     at |-> cnow, epoch |-> epoch, data |-> result]}
     ELSE UNCHANGED <<cache, stores>>
  /\ lastCall' = [q |-> q, result |-> result, fromCache |-> FALSE]
  /\ run' = IF result.success /\ q.offset = 0 /\ q.limit > 0
            THEN [base |-> q, ids |-> PageIds(result), next |-> q.limit,
                  done |-> ~result.hasMore, groups |-> result.groupedData,
                  parsed |-> result.sorted]
            ELSE IF result.success /\ ContinuesRun(q)
            THEN [base |-> run.base, ids |-> run.ids \o PageIds(result),
                  next |-> run.next + q.limit, done |-> ~result.hasMore,
                  groups |-> run.groups, parsed |-> run.parsed]
            ELSE NoRun

\* The rest of getAggregatedLogs(config): the files are read, the result is built,
\* stored and returned.
FinishCall(c, readings) ==
  /\ c \in inflight
  /\ inflight' = inflight \ {c}
  /\ Respond(c, c.q, Aggregate(c.q, fs, readings, c.executedAt), Ticket)
  /\ UNCHANGED <<fs, cnow, epoch, calls, watcherVars, debounceVars, extraVars, aliasVars>>

\* clearCache()
ClearCache ==
  /\ epoch < MaxClears
  /\ cache' = EmptyMap
  /\ epoch' = epoch + 1
  /\ UNCHANGED <<fs, cnow, inflight, calls, stores, lastCall, run, watcherVars, debounceVars, extraVars, aliasVars>>

\* 20 s pass.
TickClock ==
  /\ cnow < MaxClock
  /\ cnow' = cnow + 1
  /\ UNCHANGED <<fs, cache, inflight, epoch, calls, stores, lastCall, run,
                 watcherVars, debounceVars, extraVars, aliasVars>>

\* A query as the controller hands it to getAggregatedLogs; groupBy and
\* includeMetadata have their defaults.
Query(userIds, aliasNames, logLevels, limit, offset, sortBy, sortOrder, enableCache) ==
  [userIds |-> userIds, aliasNames |-> aliasNames, date |-> "null",
   logLevels |-> logLevels, limit |-> limit, offset |-> offset,
   groupBy |-> "timestamp", sortBy |-> sortBy, sortOrder |-> sortOrder,
   includeMetadata |-> TRUE, enableCache |-> enableCache]

(***************************************************************************)
(* SpecAgg: one caller, the cache off, any file system: the pipeline.      *)
(***************************************************************************)
AggQueries ==
  {Query(u, a, l, lim, off, sb, so, FALSE) :
     u \in {<< >>, <<"u1">>}, a \in {<< >>, <<"a">>}, l \in {<< >>, <<"ERROR">>},
     lim \in {0, 1, 1000}, off \in 0..MaxOffset,
     sb \in {"timestamp", "level"}, so \in {"asc", "desc"}}

\* The next page of the paging run in progress.
NextPage == IF run # NoRun /\ ~run.done
            THEN {[run.base EXCEPT !.offset = run.next]} ELSE {}

InitAgg == WatcherInit /\ DebounceInit /\ \E dirs \in FileSystems : AggIdle(dirs)

NextAgg ==
  \/ \E q \in AggQueries \cup NextPage : inflight = {} /\ BeginCall(q)
  \/ \E c \in inflight, readings \in ClockReadings : FinishCall(c, readings)

SpecAgg == InitAgg /\ [][NextAgg]_vars

(***************************************************************************)
(* SpecCache: concurrent callers of two queries with one cache key and one *)
(* with another, the clock and clearCache().                               *)
(***************************************************************************)
QDesc == Query(<<"u1">>, << >>, << >>, 1000, 0, "timestamp", "desc", TRUE)
QAsc == Query(<<"u1">>, << >>, << >>, 1000, 0, "timestamp", "asc", TRUE)
QErr == Query(<<"u1">>, << >>, <<"ERROR">>, 1000, 0, "timestamp", "desc", TRUE)
CacheQueries == {QDesc, QAsc, QErr}

\* The clock does not advance while a call parses (it is in units of 20 s here).
NoDrift == [i \in 1..MaxLines |-> 0]

InitCache == WatcherInit /\ DebounceInit /\ AggIdle(CacheFs)

NextCache ==
  \/ \E q \in CacheQueries :
       /\ Cardinality(calls) < MaxCalls
       /\ Cardinality(inflight) < MaxInflight
       /\ BeginCall(q)
  \/ \E c \in inflight : FinishCall(c, NoDrift)
  \/ ClearCache
  \/ TickClock

SpecCache == InitCache /\ [][NextCache]_vars

(***************************************************************************)
(* SpecKey: callers whose queries name the same users, aliases and levels  *)
(* in another order or another letter case; the cache is off, each call in *)
(* flight carries the cache key generateCacheKey gave it.                  *)
(***************************************************************************)
KeyQueries ==
  {Query(u, a, l, 1000, 0, "timestamp", "desc", FALSE) :
     u \in {<<"u1", "u2">>, <<"u2", "u1">>, <<"U1", "u2">>},
     a \in {<<"a", "b">>, <<"b", "a">>, <<"A", "b">>},
     l \in {<<"ERROR", "INFO">>, <<"INFO", "ERROR">>, <<"error", "INFO">>}}

InitKey == WatcherInit /\ DebounceInit /\ AggIdle(CacheFs)

NextKey ==
  \/ \E q \in KeyQueries : Cardinality(inflight) < MaxInflight /\ BeginCall(q)
  \/ \E c \in inflight : FinishCall(c, NoDrift)

SpecKey == InitKey /\ [][NextKey]_vars

(***************************************************************************)
(* SpecSelect: one caller, the cache off, any file system, queries that    *)
(* name users, aliases and levels: known ones, a registered user with no   *)
(* alias ("u3"), a user ("u9") and an alias ("z") nobody registered.       *)
(***************************************************************************)
SelectQueries ==
  {Query(u, a, l, 1000, 0, "timestamp", "desc", FALSE) :
     u \in {<< >>, <<"u1">>, <<"u2", "u1">>, <<"u3">>, <<"u9">>},
     a \in {<< >>, <<"a">>, <<"b">>, <<"z">>},
     l \in {<< >>, <<"ERROR">>, <<"INFO", "WARNING">>}}

InitSelect == WatcherInit /\ DebounceInit /\ \E dirs \in FileSystems : AggIdle(dirs)

NextSelect ==
  \/ \E q \in SelectQueries : inflight = {} /\ BeginCall(q)
  \/ \E c \in inflight : FinishCall(c, NoDrift)

SpecSelect == InitSelect /\ [][NextSelect]_vars

(***************************************************************************)
(* SpecGroup: one caller, the cache off, any file system: queries that ask *)
(* for groups, or not, and the pages of a paging run.                      *)
(***************************************************************************)
GroupQueries ==
  {[Query(<< >>, << >>, l, lim, 0, "timestamp", "desc", FALSE)
      EXCEPT !.groupBy = g, !.includeMetadata = md] :
     l \in {<< >>, <<"ERROR", "INFO">>}, lim \in {1, 1000},
     g \in {"", "timestamp", "user", "alias", "level", "file", "hour", "date"},
     md \in BOOLEAN}

InitGroup == WatcherInit /\ DebounceInit /\ \E dirs \in FileSystems : AggIdle(dirs)

NextGroup ==
  \/ \E q \in GroupQueries \cup NextPage : inflight = {} /\ BeginCall(q)
  \/ \E c \in inflight, readings \in ClockReadings : FinishCall(c, readings)

SpecGroup == InitGroup /\ [][NextGroup]_vars

(***************************************************************************)
(* SpecLevel: one caller, the cache off, one file of two lines that hold   *)
(* keywords of several levels.                                             *)
(***************************************************************************)
LevelLines ==
  {[ts |-> 1, words |-> w] :
     w \in {{"warn", "critical"}, {"warn", "warning", "fatal"}, {"error", "critical"},
            {"info", "panic"}, {"warn", "warning", "error"}, {"info", "warn"},
            {"critical"}, {"timeout"}, {}}}

LevelFileSystems ==
  {[p1 |-> Dir(<<File("a.log", 5, Today, TRUE, <<l1, l2>>)>>), p2 |-> Missing,
    p3 |-> Missing] : l1 \in LevelLines, l2 \in LevelLines}

LevelQueries ==
  {Query(<<"u1">>, << >>, l, 1000, 0, "timestamp", "desc", FALSE) :
     l \in {<< >>, <<"CRITICAL", "ERROR">>, <<"WARNING">>}}

InitLevel == WatcherInit /\ DebounceInit /\ \E dirs \in LevelFileSystems : AggIdle(dirs)

NextLevel ==
  \/ \E q \in LevelQueries : inflight = {} /\ BeginCall(q)
  \/ \E c \in inflight : FinishCall(c, NoDrift)

SpecLevel == InitLevel /\ [][NextLevel]_vars

(***************************************************************************)
(* SpecParse: the two parsers applied to the content of a file. A line of  *)
(* the content is [body, trail]: its text up to the last character that is *)
(* not white space ("" when it has none) and whether white space follows.  *)
(***************************************************************************)
MaxRaw == 3        \* lines of a raw content
RawLines == [body : {"", "x", "y"}, trail : BOOLEAN]
RECURSIVE SeqsUpTo(_, _)
SeqsUpTo(S, n) ==
  IF n = 0 THEN {<< >>}
  ELSE SeqsUpTo(S, n - 1) \cup {Append(s, x) : s \in {q \in SeqsUpTo(S, n - 1) : Len(q) = n - 1}, x \in S}
RawContents == SeqsUpTo(RawLines, MaxRaw)

\* String.prototype.trimEnd, String.prototype.trim (as a truth value) and .length > 0
trimEnd(line) == [line EXCEPT !.trail = FALSE]
trimTruthy(line) == line.body # ""
nonEmpty(line) == line.body # "" \/ line.trail
\* Array.prototype.reverse
Reverse(s) == [i \in 1..Len(s) |-> s[Len(s) + 1 - i]]

\* readFileContent: content.split('\n').map(line => line.trimEnd())
\*                    .filter(line => line.length > 0)
readLines(content) ==
  SeqFilterIdx([i \in 1..Len(content) |-> trimEnd(content[i])],
               [i \in 1..Len(content) |-> nonEmpty(trimEnd(content[i]))], 1)
\* processUserLogs: contentResult.content.forEach((line, index) => ...)
lineEntries(lines) ==
  [i \in 1..Len(lines) |-> [lineNumber |-> i, rawContent |-> lines[i]]]

\* DynamicLogService.parseLogContent(content, fileName)
dynamicLines(content) ==
  SeqFilterIdx(content, [i \in 1..Len(content) |-> trimTruthy(content[i])], 1)
parseLogLine(line, lineNumber) == [lineNumber |-> lineNumber, rawContent |-> line]
parseLogContent(content) ==
  Reverse([i \in 1..Len(dynamicLines(content)) |-> parseLogLine(dynamicLines(content)[i], i)])

\* SimpleLogService.readFileContent and the entries processUserLogs makes of it.
ReadFileContent(content) ==
  /\ applied' = [op |-> "readFileContent", input |-> content,
                 output |-> lineEntries(readLines(content))]
  /\ UNCHANGED <<watcherVars, debounceVars, aggVars, aliasVars>>

ParseLogContent(content) ==
  /\ applied' = [op |-> "parseLogContent", input |-> content,
                 output |-> parseLogContent(content)]
  /\ UNCHANGED <<watcherVars, debounceVars, aggVars, aliasVars>>

NextParse ==
  \/ \E content \in RawContents : ReadFileContent(content)
  \/ \E content \in RawContents : ParseLogContent(content)

SpecParse == Init /\ [][NextParse]_vars

(***************************************************************************)
(* SpecCategorize: the three categorizeErrors applied to a batch of        *)
(* entries. An entry is [id, level, matches]: matches holds the keys of    *)
(* the rules of the table one of whose patterns its message matches.       *)
(***************************************************************************)
MaxBatch == 2      \* entries of a batch

\* ErrorAnalyzerService.errorPatterns, DynamicErrorAnalyzer.errorPatterns: the keys
\* in the order of the object, with the category of each.
AnalyzerPatterns ==
  <<[key |-> "connectionErrors", category |-> "Network Issues"],
    [key |-> "packageManagerErrors", category |-> "Package Manager Issues"],
    [key |-> "buildErrors", category |-> "Build & Compilation Issues"],
    [key |-> "serviceErrors", category |-> "Service Runtime Issues"],
    [key |-> "databaseErrors", category |-> "Database Issues"],
    [key |-> "pythonErrors", category |-> "Python Runtime Issues"],
    [key |-> "nextjsErrors", category |-> "Next.js Frontend Issues"]>>
DynamicPatterns ==
  <<[key |-> "connectionErrors", category |-> "Network Issues"],
    [key |-> "fileSystemErrors", category |-> "File System Issues"],
    [key |-> "memoryErrors", category |-> "Memory Issues"],
    [key |-> "applicationErrors", category |-> "Application Errors"],
    [key |-> "databaseErrors", category |-> "Database Issues"]>>
\* ErrorDetectorService.errorPatterns: the keys in the order of the object, and the
\* keys of the object `categorized` starts as.
DetectorPatterns ==
  <<"networkErrors", "packageManagerErrors", "buildErrors", "serviceErrors", "gitErrors">>
DetectorCategories ==
  {"critical", "network", "packageManager", "build", "service", "git", "other"}
\* category.replace('Errors', '').toLowerCase()
categoryKey(category) ==
  CASE category = "networkErrors" -> "network"
    [] category = "packageManagerErrors" -> "packagemanager"
    [] category = "buildErrors" -> "build"
    [] category = "serviceErrors" -> "service"
    [] category = "gitErrors" -> "git"

\* The batches: entries of two of the levels detectErrors keeps, whose messages match
\* any of two rules of the table.
Batch(keys) ==
  {[i \in 1..Len(s) |-> [id |-> i, level |-> s[i][1], matches |-> s[i][2]]] :
     s \in SeqsUpTo({"ERROR", "CRITICAL"} \X SUBSET keys, MaxBatch)}

\* The index of the first rule of a table of keys that matches, 0 when none does:
\* the `for ... of Object.entries(this.errorPatterns)` with its break.
FirstRule(tableKeys, error) ==
  IF \E i \in 1..Len(tableKeys) : tableKeys[i] \in error.matches
  THEN CHOOSE i \in 1..Len(tableKeys) :
         /\ tableKeys[i] \in error.matches
         /\ \A j \in 1..(i - 1) : tableKeys[j] \notin error.matches
  ELSE 0
KeysOf(table) == [i \in 1..Len(table) |-> table[i].key]

\* The category ErrorAnalyzerService and DynamicErrorAnalyzer push an entry to.
categoryOf(table, error) ==
  IF FirstRule(KeysOf(table), error) = 0 THEN "Other Issues"
  ELSE table[FirstRule(KeysOf(table), error)].category

\* categorizeErrors(errors) of ErrorAnalyzerService and of DynamicErrorAnalyzer: the
\* categories that are not empty, each with its entries in the order of errors.
categorizeErrors(table, errors) ==
  [c \in {categoryOf(table, errors[i]) : i \in 1..Len(errors)} |->
     SeqFilterIdx(errors, [i \in 1..Len(errors) |-> categoryOf(table, errors[i]) = c], 1)]

\* ErrorDetectorService.categorizeErrors: is the entry pushed to `category`?
detectorPushes(error, category) ==
  \/ category = "critical" /\ error.level = "CRITICAL"
  \/ /\ FirstRule(DetectorPatterns, error) # 0
     /\ categoryKey(DetectorPatterns[FirstRule(DetectorPatterns, error)]) = category
  \/ /\ category = "other"
     /\ error.level # "CRITICAL"
     /\ \/ FirstRule(DetectorPatterns, error) = 0
        \/ categoryKey(DetectorPatterns[FirstRule(DetectorPatterns, error)])
             \notin DetectorCategories
\* ErrorDetectorService.categorizeErrors(errors)
detectorCategorizeErrors(errors) ==
  [c \in DetectorCategories |->
     SeqFilterIdx(errors, [i \in 1..Len(errors) |-> detectorPushes(errors[i], c)], 1)]

AnalyzerCategorize(errors) ==
  /\ applied' = [op |-> "ErrorAnalyzerService.categorizeErrors", input |-> errors,
                 output |-> categorizeErrors(AnalyzerPatterns, errors)]
  /\ UNCHANGED <<watcherVars, debounceVars, aggVars, aliasVars>>
DynamicCategorize(errors) ==
  /\ applied' = [op |-> "DynamicErrorAnalyzer.categorizeErrors", input |-> errors,
                 output |-> categorizeErrors(DynamicPatterns, errors)]
  /\ UNCHANGED <<watcherVars, debounceVars, aggVars, aliasVars>>
DetectorCategorize(errors) ==
  /\ applied' = [op |-> "ErrorDetectorService.categorizeErrors", input |-> errors,
                 output |-> detectorCategorizeErrors(errors)]
  /\ UNCHANGED <<watcherVars, debounceVars, aggVars, aliasVars>>

NextCategorize ==
  \/ \E errors \in Batch({"connectionErrors", "databaseErrors"}) :
       AnalyzerCategorize(errors)
  \/ \E errors \in Batch({"connectionErrors", "fileSystemErrors"}) :
       DynamicCategorize(errors)
  \/ \E errors \in Batch({"networkErrors", "packageManagerErrors"}) :
       DetectorCategorize(errors)

SpecCategorize == Init /\ [][NextCategorize]_vars

(***************************************************************************)
(* SpecDiscover: findTodaysFiles applied to a directory as readdir and     *)
(* stat show it. An item is [fileName, isFile, ext, modified, modifiedDate,*)
(* localDate]: modifiedDate is the date of mtime.toISOString(), the UTC    *)
(* date; localDate the calendar date of mtime where the process runs.      *)
(***************************************************************************)
supportedExtensions == {".log", ".txt", ".out", ".err"}
\* path.extname(item.name).toLowerCase()
lowerExt(ext) == IF ext = ".LOG" THEN ".log" ELSE ext

ItemKinds ==
  ([isFile : {TRUE}, ext : {".log", ".LOG", ".json"},
    dates : {<<Today, Today>>, <<OtherDay, OtherDay>>, <<Today, OtherDay>>}])
    \cup {[isFile |-> FALSE, ext |-> ".log", dates |-> <<Today, Today>>]}
Item(name, kind, mtime) ==
  [fileName |-> name, isFile |-> kind.isFile, ext |-> kind.ext, modified |-> mtime,
   modifiedDate |-> kind.dates[1], localDate |-> kind.dates[2]]
Listings ==
  {<< >>} \cup {<<Item("a", k, 5)>> : k \in ItemKinds}
    \cup {<<Item("a", k1, 5), Item("b", k2, m)>> :
            k1 \in ItemKinds, k2 \in ItemKinds, m \in {3, 8}}

\* scanDirectoryForCurrentDate(dirPath, targetDate): the files of a supported
\* extension whose mtime.toISOString() is of the target date, newest first.
scanDirectoryForCurrentDate(items, targetDateStr) ==
  SortFiles(SeqFilterIdx(items,
                         [i \in 1..Len(items) |->
                            /\ items[i].isFile
                            /\ lowerExt(items[i].ext) \in supportedExtensions
                            /\ items[i].modifiedDate = targetDateStr], 1))

\* findTodaysFiles(basePath, targetDate) on a path that exists.
FindTodaysFiles(items, targetDate) ==
  /\ applied' = [op |-> "findTodaysFiles",
                 input |-> [items |-> items, targetDate |-> targetDate],
                 output |-> scanDirectoryForCurrentDate(
                              items, IF targetDate = "null" THEN Today ELSE targetDate)]
  /\ UNCHANGED <<watcherVars, debounceVars, aggVars, aliasVars>>

NextDiscover ==
  \E items \in Listings, targetDate \in {"null", Today, OtherDay} :
    FindTodaysFiles(items, targetDate)

SpecDiscover == Init /\ [][NextDiscover]_vars

(***************************************************************************)
(* SpecScenario: one caller, the cache off, over one directory (p1, of the *)
(* alias a of u1) that holds one file modified on 2025-09-01 with the      *)
(* lines "[2025-09-01 10:00:00] ERROR database connection failed" and      *)
(* "[2025-09-01 10:00:05] INFO started worker".                            *)
(***************************************************************************)
ScenarioFs ==
  [p \in Paths |->
     CASE p = "p1" -> Dir(<<File("a.log", 5, Today, TRUE,
                                 <<[ts |-> 1, words |-> {"error", "failed"}],
                                   [ts |-> 2, words |-> {"info"}]>>)>>)
       [] OTHER -> Missing]
ScenarioQuery ==
  [Query(<< >>, <<"a">>, <<"ERROR">>, 1000, 0, "timestamp", "desc", FALSE)
     EXCEPT !.date = Today]

InitScenario == WatcherInit /\ DebounceInit /\ AggIdle(ScenarioFs)

NextScenario ==
  \/ \E q \in SelectQueries \cup {ScenarioQuery} : inflight = {} /\ BeginCall(q)
  \/ \E c \in inflight : FinishCall(c, NoDrift)

SpecScenario == InitScenario /\ [][NextScenario]_vars

(***************************************************************************)
(* SpecEvents: the events the watcher publishes: add, unlink and change    *)
(* notifications, the background analysis of a reprocessing pass, among    *)
(* the starts, stops, errors and retries of Spec.                          *)
(***************************************************************************)
MaxFileEvents == 1   \* add notifications, and unlink notifications, of a service in a run
MaxChanges == 1      \* change notifications in a run of SpecEvents
MaxFailures == 4     \* handleWatcherError calls in a run of SpecEvents

\* onFileAdded(serviceName, filePath), called by an open watcher of the service.
OnFileAdded(s) ==
  /\ SubsOf(s) # {}
  /\ seen[s].add < MaxFileEvents
  /\ published' = broadcastToClients(published, "FILE_ADDED", s)
  /\ seen' = [seen EXCEPT ![s].add = @ + 1]
  /\ UNCHANGED <<isWatching, watchers, retryAttempts, subs, nextSub, retryTimers,
                 pendingConn, pendingWatch, stops, errorCalls, consecErrors, hasFailed,
                 pathNotFound, changeTimeouts, debounceTimers, nextHandle, now, lastNotif,
                 notifs, bursts, passes, lastPassDelay, analyses, aggVars, extraVars, aliasVars>>

\* onFileDeleted(serviceName, filePath), called by an open watcher of the service.
OnFileDeleted(s) ==
  /\ SubsOf(s) # {}
  /\ seen[s].unlink < MaxFileEvents
  /\ published' = broadcastToClients(published, "FILE_DELETED", s)
  /\ seen' = [seen EXCEPT ![s].unlink = @ + 1]
  /\ UNCHANGED <<isWatching, watchers, retryAttempts, subs, nextSub, retryTimers,
                 pendingConn, pendingWatch, stops, errorCalls, consecErrors, hasFailed,
                 pathNotFound, changeTimeouts, debounceTimers, nextHandle, now, lastNotif,
                 notifs, bursts, passes, lastPassDelay, analyses, aggVars, extraVars, aliasVars>>

\* What logParser.getLogsByDate finds for the date of the pass: no file, or the levels
\* of the entries of the file.
AnalysedLogs ==
  {[exists |-> FALSE, logs |-> << >>]} \cup
  {[exists |-> TRUE, logs |-> l] :
     l \in {<< >>, <<"INFO">>, <<"WARNING">>, <<"ERROR", "INFO">>, <<"INFO", "CRITICAL">>}}

\* log.level === 'ERROR' || log.level === 'CRITICAL' || log.level === 'WARNING'
IsErrorLevel(level) == level = "ERROR" \/ level = "CRITICAL" \/ level = "WARNING"
\* error.level === 'CRITICAL'
IsCriticalLevel(level) == level = "CRITICAL"

\* extractErrors(logs)
extractErrors(logs) == SelectSeq(logs, IsErrorLevel)

\* analyzeLogsForErrors(serviceName, date): with no log file, a result without
\* totalErrors (`undefined > 0` is false, as 0 > 0 is); else the number of errors,
\* criticalIssuesFound of generateAnalysis and the CRITICAL entries of the categories
\* (categorizeErrors puts every error in one category).
analyzeLogsForErrors(logData) ==
  IF ~logData.exists
  THEN [totalErrors |-> 0, criticalIssuesFound |-> FALSE, criticals |-> 0]
  ELSE [totalErrors |-> Len(extractErrors(logData.logs)),
        criticalIssuesFound |-> Len(SelectSeq(extractErrors(logData.logs), IsCriticalLevel)) > 0,
        criticals |-> Len(SelectSeq(extractErrors(logData.logs), IsCriticalLevel))]

\* sendCriticalAlert(serviceName, analysis, date)
sendCriticalAlert(pub, s, analysis) ==
  IF analysis.criticals > 0 THEN broadcastToClients(pub, "CRITICAL_ERROR_ALERT", s) ELSE pub

\* performBackgroundAnalysis(serviceName, date) after its await.
performBackgroundAnalysis(pub, s, analysis) ==
  IF analysis.totalErrors > 0
  THEN IF analysis.criticalIssuesFound
       THEN sendCriticalAlert(broadcastToClients(pub, "ANALYSIS_UPDATE", s), s, analysis)
       ELSE broadcastToClients(pub, "ANALYSIS_UPDATE", s)
  ELSE pub

\* The await of performBackgroundAnalysis returns: analyzeLogsForErrors has read the
\* log of the date.
AnalysisDone(s, logData) ==
  /\ analyses[s] > 0
  /\ analyses' = [analyses EXCEPT ![s] = @ - 1]
  /\ published' = performBackgroundAnalysis(published, s, analyzeLogsForErrors(logData))
  /\ seen' = [seen EXCEPT ![s].critical =
                IF analyzeLogsForErrors(logData).criticalIssuesFound THEN @ + 1 ELSE @]
  /\ UNCHANGED <<isWatching, watchers, retryAttempts, subs, nextSub, retryTimers,
                 pendingConn, pendingWatch, stops, errorCalls, consecErrors, hasFailed,
                 pathNotFound, changeTimeouts, debounceTimers, nextHandle, now, lastNotif,
                 notifs, bursts, passes, lastPassDelay, aggVars, extraVars, aliasVars>>

\* analyzeLogsForErrors throws: the catch of performBackgroundAnalysis logs it.
AnalysisFailed(s) ==
  /\ analyses[s] > 0
  /\ analyses' = [analyses EXCEPT ![s] = @ - 1]
  /\ UNCHANGED <<watcherVars, changeTimeouts, debounceTimers, nextHandle, now, lastNotif,
                 notifs, bursts, passes, lastPassDelay, seen, aggVars, extraVars, aliasVars>>

InitEvents == Init

NextEvents ==
  \/ StartWatching
  \/ \E accessible \in BOOLEAN : ConnectivityDone(accessible)
  \/ \E s \in Services, outcome \in {"nopath", "ok"} : WatchServiceResume(s, outcome)
  \/ \E w \in subs : WatcherReady(w)
  \/ \E w \in subs : errorCalls < MaxFailures /\ WatcherError(w)
  \/ \E s \in Services, g \in Gens : RetryTimerFire(s, g)
  \/ StopWatching
  \/ \E s \in Services : OnFileAdded(s)
  \/ \E s \in Services : OnFileDeleted(s)
  \/ \E s \in Services : nextHandle <= MaxChanges /\ OnFileChanged(s, "app")
  \/ \E t \in debounceTimers : DebounceFire(t)
  \/ debounceTimers # {} /\ Tick
  \/ \E s \in Services, logData \in AnalysedLogs : AnalysisDone(s, logData)
  \/ \E s \in Services : AnalysisFailed(s)

SpecEvents == InitEvents /\ [][NextEvents]_vars

(***************************************************************************)
(* SpecAlias: the alias mutations of one user through the UserAliasService *)
(* instances, each of which writes its whole map to the one storage file.  *)
(***************************************************************************)
MaxMutations == 3   \* alias mutations in a run

\* saveToFile() up to its await: the map as it is now is serialized and the write of
\* the whole file is under way.
saveToFile(i, data) == saves \cup {[by |-> i, data |-> data]}

\* addUserAlias(userId, aliasName, basePath) through instance i: throws when the
\* instance has the alias; else pushes it and saves.
AddUserAlias(i, aliasName) ==
  /\ mutations < MaxMutations
  /\ mutations' = mutations + 1
  /\ IF aliasName \in aliasMaps[i]
     THEN UNCHANGED <<storageFile, aliasMaps, saves, kept>>
     ELSE /\ aliasMaps' = [aliasMaps EXCEPT ![i] = @ \cup {aliasName}]
          /\ saves' = saveToFile(i, aliasMaps[i] \cup {aliasName})
          /\ kept' = kept \cup {aliasName}
          /\ UNCHANGED storageFile
  /\ UNCHANGED <<watcherVars, debounceVars, aggVars, extraVars>>

\* deleteAlias(userId, aliasName) through instance i: false when the instance has no
\* such alias; else splices it out and saves.
DeleteAlias(i, aliasName) ==
  /\ mutations < MaxMutations
  /\ mutations' = mutations + 1
  /\ IF aliasName \notin aliasMaps[i]
     THEN UNCHANGED <<storageFile, aliasMaps, saves, kept>>
     ELSE /\ aliasMaps' = [aliasMaps EXCEPT ![i] = @ \ {aliasName}]
          /\ saves' = saveToFile(i, aliasMaps[i] \ {aliasName})
          /\ kept' = kept \ {aliasName}
          /\ UNCHANGED storageFile
  /\ UNCHANGED <<watcherVars, debounceVars, aggVars, extraVars>>

\* updateAliasAccess(userId, aliasName) through instance i: when the instance has the
\* alias, counts the access and saves.
UpdateAliasAccess(i, aliasName) ==
  /\ mutations < MaxMutations
  /\ mutations' = mutations + 1
  /\ IF aliasName \in aliasMaps[i]
     THEN saves' = saveToFile(i, aliasMaps[i])
     ELSE UNCHANGED saves
  /\ UNCHANGED <<storageFile, aliasMaps, kept, watcherVars, debounceVars, aggVars, extraVars>>

\* fs.writeJson completes: the file is what this call serialized. The writes in
\* flight complete in any order.
SaveDone(w) ==
  /\ w \in saves
  /\ saves' = saves \ {w}
  /\ storageFile' = w.data
  /\ UNCHANGED <<aliasMaps, kept, mutations, watcherVars, debounceVars, aggVars, extraVars>>

InitAlias == Init

NextAlias ==
  \/ \E i \in Instances, aliasName \in AliasNames : AddUserAlias(i, aliasName)
  \/ \E i \in Instances, aliasName \in AliasNames : DeleteAlias(i, aliasName)
  \/ \E i \in Instances, aliasName \in AliasNames : UpdateAliasAccess(i, aliasName)
  \/ \E w \in saves : SaveDone(w)

SpecAlias == InitAlias /\ [][NextAlias]_vars

(***************************************************************************)
(* The debounce claim (specification SpecDebounce).                        *)
(***************************************************************************)
PendingFor(k) == {t \in debounceTimers : t.svc = k[1] /\ t.file = k[2]}

C1_ThreeErrorsFail ==
  \A s \in Services :
    consecErrors[s] = maxRetries =>
      /\ published[<<"WATCHER_FAILED", s>>] = 1
      /\ RetryTimerCount(s) = 0
      /\ pendingWatch[s] = 0

\* C2 (as claimed): every service has at most one open subscription.
C2_OneSubscriptionPerService ==
  \A s \in Services : Cardinality(SubsOf(s)) <= 1

\* C3 (as claimed): a retry timer scheduled before a stopWatching() (its generation
\* is below the number of stops) starts no watchService call when it fires.
C3_StaleTimerNoOp ==
  [][\A s \in Services, g \in Gens :
       (g < stops /\ retryTimers'[s][g] < retryTimers[s][g])
         => pendingWatch'[s] <= pendingWatch[s]]_vars

\* C10 (as claimed): once WATCHER_FAILED has been published for a service, and until
\* the next startWatching(), no step schedules a retry timer for it, starts a
\* watchService call for it or publishes another WATCHER_FAILED for it.
C10_FailedIsTerminal ==
  [][\A s \in Services :
       hasFailed[s] =>
         /\ RetryTimerCount(s)' <= RetryTimerCount(s)
         /\ pendingWatch'[s] <= pendingWatch[s]
         /\ published'[<<"WATCHER_FAILED", s>>] = published[<<"WATCHER_FAILED", s>>]]_vars

(***************************************************************************)
(* What a query is to find, stated on the files rather than by the loops.  *)
(***************************************************************************)
Elems(s) == {s[i] : i \in 1..Len(s)}
\* The (user, alias) pairs a query targets.
Targeted(q) ==
  {ua \in UNION {{<<u, al>> : al \in Elems(getUserAliases(u))} : u \in Elems(TargetUsers(q))} :
     Len(q.aliasNames) = 0 \/ Includes(q.aliasNames, ua[2].aliasName)}
\* The files of the query's date under a directory.
DatedFiles(q, dir) ==
  {f \in Elems(dir.files) : f.modifiedDate = (IF q.date = "null" THEN Today ELSE q.date)}
\* The sources of a query that can be read: (user, alias, file).
ReadableSources(q, dirs) ==
  UNION {{<<ua[1], ua[2], f>> :
            f \in {g \in DatedFiles(q, dirs[ua[2].basePath]) :
                     dirs[ua[2].basePath].exists /\ g.readable}} : ua \in Targeted(q)}
\* The entries of the readable sources that pass the level filter, by id.
ExpectedIds(q, dirs) ==
  UNION {{logEntryId(s[1], s[2].aliasName, s[3].fileName, i - 1) :
            i \in {j \in 1..Len(s[3].lines) :
                     Len(q.logLevels) = 0
                       \/ Includes(q.logLevels, detectLogLevel(s[3].lines[j]))}} :
           s \in ReadableSources(q, dirs)}
Ids(logs) == {logs[i].id : i \in 1..Len(logs)}

(***************************************************************************)
(* The cache claims (specification SpecCache).                             *)
(***************************************************************************)
\* b was issued less than 60 s after a was stored under b's key, with no
\* clearCache() in between.
Covers(a, b) ==
  b.key = a.key /\ b.n > a.n /\ b.at - a.at < cacheTimeout /\ b.epoch = a.epoch
\* The last store under b's key before b was issued.
LatestBefore(b) ==
  CHOOSE s \in stores :
    /\ s.key = b.key /\ s.n < b.n
    /\ \A s2 \in stores : (s2.key = b.key /\ s2.n < b.n) => s2.n <= s.n
\* b read nothing: it neither is reading nor went on to store a result.
NoIO(b) == (\A c \in inflight : c.n # b.n) /\ (\A s \in stores : s.by # b.n)

\* C5 (as claimed): a call issued less than 60 s after a call with the same cache
\* key stored its result, with no clearCache() in between, is served from the cache
\* (fromCache = true, nothing read) the payload of that first call.
C5_SamePayloadAsFirst ==
  \A a \in stores, b \in calls :
    Covers(a, b) => b.hit /\ NoIO(b) /\ b.data = a.data

\* C5 (amended): such a call is served from the cache, with fromCache = true and
\* nothing read, the payload most recently stored under its key: the first call's
\* unless another aggregation of the same key, in flight then, has stored since.
C5_ServedLatestStored ==
  \A a \in stores, b \in calls :
    Covers(a, b) => b.hit /\ NoIO(b) /\ b.data = LatestBefore(b).data

\* C5, witness: a call 40 s after the only store under its key was served that payload.
C5_Witness ==
  \E a \in stores, b \in calls :
    /\ Covers(a, b) /\ b.at - a.at = cacheTimeout - 1
    /\ b.hit /\ b.data = a.data
    /\ \A s \in stores : s.key = a.key => s = a

\* C6 (as claimed): the first call begun after a clearCache() is not served from the
\* cache, whatever was in flight when the cache was cleared.
C6_FreshAfterClear ==
  \A b \in calls :
    (b.epoch > 0 /\ \A b2 \in calls : b2.epoch = b.epoch => b2.n >= b.n) => ~b.hit

(***************************************************************************)
(* The pipeline claims (specification SpecAgg).                            *)
(***************************************************************************)
\* C7 (as claimed): a call returns min(limit, max(0, total - offset)) entries, those
\* at positions offset .. offset+limit-1 of the filtered and sorted sequence; and
\* the pages of a finished paging run (offset 0, limit, 2*limit, ... as separate
\* calls over the same files) hold every filtered entry exactly once.
C7_Pagination ==
  /\ lastCall # NoCall =>
       /\ Len(lastCall.result.logs) =
            Min(lastCall.q.limit, Max(0, lastCall.result.totalLogs - lastCall.q.offset))
       /\ \A i \in 1..Len(lastCall.result.logs) :
            lastCall.result.logs[i] = lastCall.result.sorted[lastCall.q.offset + i]
  /\ (run # NoRun /\ run.done) =>
       /\ Elems(run.ids) = ExpectedIds(run.base, fs)
       /\ Len(run.ids) = Cardinality(ExpectedIds(run.base, fs))

\* C8 (as claimed): the returned entries are in the requested order of the sortBy
\* key, and two entries equal on the key are in the order of file modification
\* time descending, then line index ascending.
C8_SortedWithTieBreak ==
  lastCall # NoCall =>
    \A i, j \in 1..Len(lastCall.result.logs) :
      i < j =>
        /\ comparison(lastCall.q.sortBy, lastCall.result.logs[i], lastCall.result.logs[j])
             * (IF lastCall.q.sortOrder = "desc" THEN -1 ELSE 1) <= 0
        /\ comparison(lastCall.q.sortBy, lastCall.result.logs[i], lastCall.result.logs[j]) = 0
             => \/ lastCall.result.logs[i].fileModified > lastCall.result.logs[j].fileModified
                \/ /\ lastCall.result.logs[i].fileModified = lastCall.result.logs[j].fileModified
                   /\ lastCall.result.logs[i].lineNumber <= lastCall.result.logs[j].lineNumber

\* C9: a call succeeds whatever alias directory is missing and whatever file cannot
\* be read; its filtered sequence (and its page, when the page takes it all) holds
\* exactly the entries of the sources that can be read, each once; totalLogs counts
\* those entries and totalFiles those files.
C9_PartialFailure ==
  lastCall # NoCall =>
    /\ lastCall.result.success
    /\ Ids(lastCall.result.sorted) = ExpectedIds(lastCall.q, fs)
    /\ Len(lastCall.result.sorted) = Cardinality(ExpectedIds(lastCall.q, fs))
    /\ lastCall.result.totalLogs = Cardinality(ExpectedIds(lastCall.q, fs))
    /\ lastCall.result.totalFiles = Cardinality(ReadableSources(lastCall.q, fs))
    /\ (lastCall.q.offset = 0 /\ lastCall.q.limit >= lastCall.result.total)
         => Ids(lastCall.result.logs) = ExpectedIds(lastCall.q, fs)

\* C9, witness: a call returned entries though the directory of one alias it targets
\* is missing and a file of the date under another cannot be read.
C9_Witness ==
  /\ lastCall # NoCall
  /\ lastCall.result.success
  /\ \E ua \in Targeted(lastCall.q) : ~fs[ua[2].basePath].exists
  /\ \E ua \in Targeted(lastCall.q) :
       \E f \in DatedFiles(lastCall.q, fs[ua[2].basePath]) : ~f.readable
  /\ Len(lastCall.result.logs) > 0
  /\ lastCall.result.totalFiles > 0

(***************************************************************************)
(* More of the watcher's claims (specification Spec).                      *)
(***************************************************************************)
\* The ids of the open subscriptions of a service.
SubIds(s) == {w.id : w \in SubsOf(s)}

\* C11 (as claimed): the watchService run that finds the directory of a service
\* missing publishes one SERVICE_PATH_NOT_FOUND for it and leaves its retry counter,
\* its retry timers and its subscriptions as they were; and from then until the
\* next startWatching() no subscription of the service is created.
C11_PathNotFoundIsFinal ==
  [][\A s \in Services :
       /\ published'[<<"SERVICE_PATH_NOT_FOUND", s>>] # published[<<"SERVICE_PATH_NOT_FOUND", s>>]
            => /\ published'[<<"SERVICE_PATH_NOT_FOUND", s>>]
                    = published[<<"SERVICE_PATH_NOT_FOUND", s>>] + 1
               /\ retryAttempts' = retryAttempts
               /\ RetryTimerCount(s)' = RetryTimerCount(s)
               /\ SubIds(s)' = SubIds(s)
               /\ watchers'[s] = watchers[s]
       /\ (pathNotFound[s] /\ pathNotFound'[s]) => SubIds(s)' \subseteq SubIds(s)]_vars

(***************************************************************************)
(* The stop claim (specification SpecStop).                                *)
(***************************************************************************)
\* C12: a stopWatching() that finds the service watching closes every subscription
\* registered in the watcher map, leaves no debounce timer pending, empties the
\* watcher map and the retry counters and sets isWatching to false; a stopWatching()
\* that finds it not watching (called again, or never started) changes nothing.
C12_StopClearsAll ==
  [][/\ stops' = stops + 1 =>
          /\ \A w \in subs : watchers[w.svc] = w.id => w.id \notin {x.id : x \in subs'}
          /\ debounceTimers' = {}
          /\ changeTimeouts' = EmptyMap
          /\ \A s \in Services : watchers'[s] = NoWatcher
          /\ retryAttempts' = EmptyMap
          /\ isWatching' = FALSE
     /\ (~isWatching /\ StopWatching) => vars' = vars]_vars

\* C12, witness: a stopWatching() has run on a service that had a subscription, a
\* debounce timer pending for a burst and a retry counter: the burst never had its
\* pass, and nothing of them is left; a second call finds it not watching.
C12_Witness ==
  /\ stops = 1 /\ ~isWatching
  /\ \E k \in DebounceKeys : bursts[k] > passes[k]
  /\ errorCalls > 0
  /\ debounceTimers = {} /\ retryAttempts = EmptyMap
  /\ \A s \in Services : SubsOf(s) = {} /\ watchers[s] = NoWatcher

(***************************************************************************)
(* More of the cache claims (specification SpecCache).                     *)
(***************************************************************************)
\* When b was issued, the cache held under b's key an entry aged 60 s or more.
Expired(b) ==
  /\ \E s \in stores : s.key = b.key /\ s.n < b.n
  /\ LatestBefore(b).epoch = b.epoch
  /\ b.at - LatestBefore(b).at >= cacheTimeout
\* The last store under a key.
LatestStore(k) ==
  CHOOSE s \in stores : s.key = k /\ \A s2 \in stores : s2.key = k => s2.n <= s.n

\* C13: a call that finds under its key an entry aged 60 s or more is not served
\* from the cache: it reads the files and, once it has returned, has stored its own
\* result (of its own time) over the entry; and an entry stays in the cache, however
\* old, until a store under its key replaces it or clearCache() empties the cache:
\* the cache holds exactly the last store of each key stored since the last
\* clearCache().
C13_LazyExpiry ==
  /\ \A b \in calls :
       Expired(b) =>
         /\ ~b.hit
         /\ (\A c \in inflight : c.n # b.n) =>
              \E s \in stores : s.by = b.n /\ s.key = b.key /\ s.data.executedAt = b.at
  /\ \A s \in stores :
       s.epoch = epoch =>
         /\ MapHas(cache, s.key)
         /\ cache[s.key] = [data |-> LatestStore(s.key).data,
                            timestamp |-> LatestStore(s.key).at]
  /\ \A k \in DOMAIN cache : \E s \in stores : s.key = k /\ s.epoch = epoch

\* C13, witness: a call found an entry aged exactly 60 s under its key, was not
\* served from the cache, and its own result is now the entry.
C13_Witness ==
  \E b \in calls :
    /\ Expired(b) /\ b.at - LatestBefore(b).at = cacheTimeout
    /\ ~b.hit
    /\ \E s \in stores : s.by = b.n /\ cache[b.key] = [data |-> s.data, timestamp |-> s.at]

(***************************************************************************)
(* The cache key claim (specification SpecKey).                            *)
(***************************************************************************)
\* String.prototype.toLowerCase on the names of the model.
toLowerCase(str) ==
  CASE str = "A" -> "a" [] str = "U1" -> "u1" [] str = "ERROR" -> "error"
    [] str = "INFO" -> "info" [] OTHER -> str
\* Two lists name the same things, whatever the order and the letter case.
SameNames(s1, s2) ==
  /\ Len(s1) = Len(s2)
  /\ {toLowerCase(x) : x \in Elems(s1)} = {toLowerCase(x) : x \in Elems(s2)}
\* Two queries differ at most in the order or the letter case of their lists.
SameUpToOrderAndCase(q1, q2) ==
  /\ SameNames(q1.userIds, q2.userIds)
  /\ SameNames(q1.aliasNames, q2.aliasNames)
  /\ SameNames(q1.logLevels, q2.logLevels)
  /\ [q1 EXCEPT !.userIds = << >>, !.aliasNames = << >>, !.logLevels = << >>]
       = [q2 EXCEPT !.userIds = << >>, !.aliasNames = << >>, !.logLevels = << >>]

\* C14 (as claimed): two calls whose queries differ only in the order or in the
\* letter case of the elements of userIds, aliasNames or logLevels have the same
\* cache key.
C14_KeyIgnoresOrderAndCase ==
  \A c1, c2 \in inflight :
    SameUpToOrderAndCase(c1.q, c2.q) => c1.cacheKey = c2.cacheKey

(***************************************************************************)
(* The selection claims (specification SpecSelect).                        *)
(***************************************************************************)
\* The aliases of user u the query selects.
Resolved(q, u) == FilterAliases(getUserAliases(u), SortStrings(q.aliasNames))
\* No user of the query resolves to an alias.
NoResolution(q) == \A u \in Elems(TargetUsers(q)) : Resolved(q, u) = << >>

\* C15 (as claimed): getAggregatedLogs fails exactly when no user or no alias
\* resolves: a query whose users are all unknown, or whose alias names match no
\* alias of any of its users, is answered by a failure, not by an empty success.
C15_FailsIffNothingResolves ==
  lastCall # NoCall => (~lastCall.result.success <=> NoResolution(lastCall.q))

\* The metadata of a result, and the names a caller can read in it: the numbers
\* name nothing, the groups are named by their keys.
Metadata(result) ==
  [totalUsers |-> result.totalUsers, processedUsers |-> result.processedUsers,
   totalFiles |-> result.totalFiles, totalLogs |-> result.totalLogs,
   groupedData |-> result.groupedData,
   filterCounts |-> [beforeFiltering |-> result.beforeFiltering,
                     afterFiltering |-> result.totalLogs]]
MetadataNames(result) == DOMAIN Metadata(result).groupedData
\* The users, aliases and files of a query that failed.
FailedUsers(q) == {u \in Elems(TargetUsers(q)) : Resolved(q, u) = << >>}
FailedAliases(q, dirs) == {ua \in Targeted(q) : ~dirs[ua[2].basePath].exists}
FailedFiles(q, dirs) ==
  UNION {{<<ua[1], ua[2], f>> :
            f \in {g \in DatedFiles(q, dirs[ua[2].basePath]) :
                     dirs[ua[2].basePath].exists /\ ~g.readable}} : ua \in Targeted(q)}

\* C16 (as claimed): the metadata of a result names every user with no usable
\* alias, every alias whose discovery failed and every file whose read failed.
C16_FailuresInMetadata ==
  (lastCall # NoCall /\ lastCall.result.success) =>
     /\ \A u \in FailedUsers(lastCall.q) : u \in MetadataNames(lastCall.result)
     /\ \A ua \in FailedAliases(lastCall.q, fs) :
          {ua[2].aliasName, ua[2].basePath} \cap MetadataNames(lastCall.result) # {}
     /\ \A s \in FailedFiles(lastCall.q, fs) :
          s[3].fileName \in MetadataNames(lastCall.result)

\* The users a query asks for: those it names, any registered user when it names none.
Requested(q) == IF q.userIds = << >> THEN DOMAIN Registry ELSE Elems(q.userIds)
\* Entry e is line e.lineNumber of a readable file of the query's date under an
\* alias registered for e.userId, with the level of that line.
IsParsedLine(e, q, dirs) ==
  \E al \in Elems(getUserAliases(e.userId)) :
    /\ al.aliasName = e.aliasName
    /\ dirs[al.basePath].exists
    /\ \E f \in DatedFiles(q, dirs[al.basePath]) :
         /\ f.readable /\ f.fileName = e.fileName /\ f.modified = e.fileModified
         /\ e.lineNumber \in 1..Len(f.lines)
         /\ e.logLevel = detectLogLevel(f.lines[e.lineNumber])
         /\ e.id = logEntryId(e.userId, e.aliasName, e.fileName, e.lineNumber - 1)
\* Entry e is of a user, an alias and a level the query selects.
Selected(e, q) ==
  /\ e.userId \in Requested(q)
  /\ q.aliasNames = << >> \/ e.aliasName \in Elems(q.aliasNames)
  /\ q.logLevels = << >> \/ e.logLevel \in Elems(q.logLevels)
\* The ids of the lines the query selects, whatever the code does.
SelectedIds(q, dirs) ==
  UNION {UNION {UNION {{logEntryId(u, al.aliasName, f.fileName, j - 1) :
                          j \in {k \in 1..Len(f.lines) :
                                   q.logLevels = << >>
                                     \/ detectLogLevel(f.lines[k]) \in Elems(q.logLevels)}} :
                       f \in {g \in DatedFiles(q, dirs[al.basePath]) :
                                dirs[al.basePath].exists /\ g.readable}} :
                al \in {x \in Elems(getUserAliases(u)) :
                          q.aliasNames = << >> \/ x.aliasName \in Elems(q.aliasNames)}} :
         u \in Requested(q)}

\* C17: the filtered entries of an aggregation are the parsed lines of the readable
\* files of the date under the aliases the query selects, of the levels it selects,
\* each once; no entry, filtered or returned, is of another user, alias or level.
C17_ExactSelection ==
  lastCall # NoCall =>
    /\ \A i \in 1..Len(lastCall.result.sorted) :
         /\ IsParsedLine(lastCall.result.sorted[i], lastCall.q, fs)
         /\ Selected(lastCall.result.sorted[i], lastCall.q)
    /\ \A i \in 1..Len(lastCall.result.logs) : Selected(lastCall.result.logs[i], lastCall.q)
    /\ Ids(lastCall.result.logs) \subseteq Ids(lastCall.result.sorted)
    /\ \A id \in SelectedIds(lastCall.q, fs) :
         Cardinality({i \in 1..Len(lastCall.result.sorted) :
                        lastCall.result.sorted[i].id = id}) = 1

\* C17, witness: a call that names a user, an alias and a level returned entries,
\* and left out entries of another user, of another alias of the user and of another
\* level under the alias.
C17_Witness ==
  /\ lastCall # NoCall
  /\ lastCall.q.userIds # << >> /\ lastCall.q.aliasNames # << >>
  /\ lastCall.q.logLevels # << >>
  /\ Len(lastCall.result.logs) > 0
  /\ SelectedIds([lastCall.q EXCEPT !.userIds = << >>], fs)
       \ Ids(lastCall.result.sorted) # {}
  /\ SelectedIds([lastCall.q EXCEPT !.aliasNames = << >>], fs)
       \ Ids(lastCall.result.sorted) # {}
  /\ SelectedIds([lastCall.q EXCEPT !.logLevels = << >>], fs)
       \ Ids(lastCall.result.sorted) # {}

(***************************************************************************)
(* The grouping claim (specification SpecGroup).                           *)
(***************************************************************************)
\* Grouping is requested: `if (groupBy && includeMetadata)`.
GroupingRequested(q) == q.groupBy # "" /\ q.includeMetadata
\* The groups by the ids of their entries.
GroupIds(groups) ==
  [key \in DOMAIN groups |-> [i \in 1..Len(groups[key].logs) |-> groups[key].logs[i].id]]
RECURSIVE SumCounts(_, _)
SumCounts(groups, keys) ==
  IF keys = {} THEN 0
  ELSE LET key == CHOOSE k \in keys : TRUE
       IN groups[key].count + SumCounts(groups, keys \ {key})
\* The position of the entry of that id in a sequence of entries.
PositionOf(logs, id) == CHOOSE i \in 1..Len(logs) : logs[i].id = id
\* The groups of one result: a partition of the filtered entries, in their order,
\* with their counts.
GroupsPartition(result) ==
  /\ \A i \in 1..Len(result.sorted) :
       Cardinality({key \in DOMAIN result.groupedData :
                      \E j \in 1..Len(result.groupedData[key].logs) :
                        result.groupedData[key].logs[j] = result.sorted[i]}) = 1
  /\ SumCounts(result.groupedData, DOMAIN result.groupedData) = result.totalLogs
  /\ \A key \in DOMAIN result.groupedData :
       /\ result.groupedData[key].count = Len(result.groupedData[key].logs)
       /\ \A i, j \in 1..Len(result.groupedData[key].logs) :
            i < j => PositionOf(result.sorted, result.groupedData[key].logs[i].id)
                       < PositionOf(result.sorted, result.groupedData[key].logs[j].id)
       /\ result.groupedData[key].errors =
            CountLevel(result.groupedData[key].logs, "ERROR")
       /\ result.groupedData[key].warnings =
            CountLevel(result.groupedData[key].logs, "WARNING")

\* C18 (as claimed): when grouping is requested the groups are those of the whole
\* filtered and sorted sequence: every filtered entry is in exactly one group, the
\* counts sum to the number of filtered entries, each group is in the sorted order
\* and counts its ERROR and WARNING entries; and the next page of a paging run
\* (another offset, the same files) comes with the groups of the first.
C18_GroupsOfWholeSequence ==
  (lastCall # NoCall /\ GroupingRequested(lastCall.q)) =>
     /\ GroupsPartition(lastCall.result)
     /\ run # NoRun => GroupIds(lastCall.result.groupedData) = GroupIds(run.groups)

\* C19 (as claimed): the files parsed twice, by two calls of a paging run, give the
\* same entries: the same ids, line numbers, timestamps and levels, lines with no
\* timestamp included.
C19_ParseTwiceSame ==
  (lastCall # NoCall /\ run # NoRun) => Elems(lastCall.result.sorted) = Elems(run.parsed)

(***************************************************************************)
(* The level claim (specification SpecLevel).                              *)
(***************************************************************************)
\* The line an entry was parsed from.
SourceLine(e, dirs) ==
  LET al == CHOOSE x \in Elems(getUserAliases(e.userId)) : x.aliasName = e.aliasName
      f == CHOOSE g \in Elems(dirs[al.basePath].files) :
             g.fileName = e.fileName /\ g.modified = e.fileModified
  IN f.lines[e.lineNumber]
\* The level the claim gives a line: the first of CRITICAL, ERROR, WARNING and INFO
\* one of whose keywords the line holds, else DEBUG.
FirstMatch(words, critical, error, warning, info) ==
  IF words \cap critical # {} THEN "CRITICAL"
  ELSE IF words \cap error # {} THEN "ERROR"
  ELSE IF words \cap warning # {} THEN "WARNING"
  ELSE IF words \cap info # {} THEN "INFO"
  ELSE "DEBUG"
\* The lines of the file system.
LinesOf(dirs) ==
  UNION {UNION {Elems(f.lines) : f \in Elems(dirs[p].files)} : p \in DOMAIN dirs}

\* C20 (as claimed): the three parsers give a line the first of CRITICAL, ERROR,
\* WARNING, INFO whose keywords it holds, else DEBUG: the level of every entry of an
\* aggregation, and the levels LogParserService and DynamicLogService give the
\* lines of the files; a line with a warning and a critical keyword is CRITICAL.
C20_LevelPriority ==
  /\ lastCall # NoCall =>
       \A i \in 1..Len(lastCall.result.sorted) :
         lastCall.result.sorted[i].logLevel =
           FirstMatch(SourceLine(lastCall.result.sorted[i], fs).words, criticalKeywords,
                      {"error", "failed", "exception"}, {"warn", "warning"},
                      {"info", "success"})
  /\ \A line \in LinesOf(fs) :
       /\ LogParserService_detectLogLevel(line) =
            FirstMatch(line.words, criticalKeywords, keywords, {"warning", "warn"},
                       {"info", "starting", "success"})
       /\ DynamicLogService_detectLogLevel(line) =
            FirstMatch(line.words, patterns[1].keywords, patterns[2].keywords,
                       patterns[3].keywords, patterns[4].keywords)

(***************************************************************************)
(* The parser claim (specification SpecParse).                             *)
(***************************************************************************)
\* The lines of a content with the trailing white space off and the empty ones out.
TrimmedNonEmpty(content) ==
  SeqFilterIdx([i \in 1..Len(content) |-> [content[i] EXCEPT !.trail = FALSE]],
               [i \in 1..Len(content) |-> content[i].body # ""], 1)

\* C21 (as claimed): a parser gives one entry per non-empty line, in the order of
\* the file; the raw texts of the entries are the lines of the file with trailing
\* white space off and empty lines out, and the lineNumber of an entry is its
\* position among them, from 1.
C21_OneEntryPerLineInOrder ==
  applied # NoCall =>
    /\ Len(applied.output) = Len(TrimmedNonEmpty(applied.input))
    /\ \A i \in 1..Len(applied.output) :
         /\ applied.output[i].rawContent = TrimmedNonEmpty(applied.input)[i]
         /\ applied.output[i].lineNumber = i

(***************************************************************************)
(* The classification claim (specification SpecCategorize).                *)
(***************************************************************************)
\* The categories of a result that hold the entry of that id.
CategoriesOf(output, id) ==
  {c \in DOMAIN output : \E j \in 1..Len(output[c]) : output[c][j].id = id}
RECURSIVE SumSizes(_, _)
SumSizes(output, cats) ==
  IF cats = {} THEN 0
  ELSE LET c == CHOOSE x \in cats : TRUE
       IN Len(output[c]) + SumSizes(output, cats \ {c})
\* The table a classifier works with: the keys of its rules in order, and the
\* categories it names them.
ClaimedCategory(op, error) ==
  CASE op = "ErrorAnalyzerService.categorizeErrors" ->
         IF FirstRule(KeysOf(AnalyzerPatterns), error) = 0 THEN {"Other Issues"}
         ELSE {AnalyzerPatterns[FirstRule(KeysOf(AnalyzerPatterns), error)].category}
    [] op = "DynamicErrorAnalyzer.categorizeErrors" ->
         IF FirstRule(KeysOf(DynamicPatterns), error) = 0 THEN {"Other Issues"}
         ELSE {DynamicPatterns[FirstRule(KeysOf(DynamicPatterns), error)].category}
    [] op = "ErrorDetectorService.categorizeErrors" ->
         IF FirstRule(DetectorPatterns, error) = 0 THEN {"other"}
         ELSE {x \in DetectorCategories :
                 DetectorPatterns[FirstRule(DetectorPatterns, error)] = x \o "Errors"}
IsCategorize(op) ==
  op \in {"ErrorAnalyzerService.categorizeErrors", "DynamicErrorAnalyzer.categorizeErrors",
          "ErrorDetectorService.categorizeErrors"}

\* C22 (as claimed): every entry of a batch is in exactly one category of the
\* result, that of the first rule in table order that matches it, the Other bucket
\* when none does; the sizes of the categories sum to the number of entries.
C22_ExactlyOneCategory ==
  (applied # NoCall /\ IsCategorize(applied.op)) =>
    /\ \A i \in 1..Len(applied.input) :
         CategoriesOf(applied.output, applied.input[i].id)
           = ClaimedCategory(applied.op, applied.input[i])
    /\ SumSizes(applied.output, DOMAIN applied.output) = Len(applied.input)

(***************************************************************************)
(* The discovery claim (specification SpecDiscover).                       *)
(***************************************************************************)
\* The items the claim has findTodaysFiles return: the files directly under the
\* directory, of a supported extension, whose local calendar date of modification
\* is the date asked for.
ClaimedFiles(items, targetDate) ==
  {items[i] : i \in {j \in 1..Len(items) :
                       /\ items[j].isFile
                       /\ lowerExt(items[j].ext) \in supportedExtensions
                       /\ items[j].localDate
                            = (IF targetDate = "null" THEN Today ELSE targetDate)}}

\* C23 (as claimed): findTodaysFiles(base, D) returns exactly the files directly
\* under base of a supported extension whose local calendar date of modification is
\* D, newest first.
C23_ExactlyDatedFiles ==
  (applied # NoCall /\ applied.op = "findTodaysFiles") =>
    /\ Elems(applied.output) = ClaimedFiles(applied.input.items, applied.input.targetDate)
    /\ Len(applied.output)
         = Cardinality(ClaimedFiles(applied.input.items, applied.input.targetDate))
    /\ \A i, j \in 1..Len(applied.output) :
         i < j => applied.output[i].modified >= applied.output[j].modified

(***************************************************************************)
(* The scenario claim (specification SpecScenario).                        *)
(***************************************************************************)
\* C24 (as claimed): over the directory of the scenario, the query for the alias,
\* the date 2025-09-01 and the level ERROR returns one entry, of level ERROR and of
\* category "Database Issues".
C24_OneDatabaseError ==
  (lastCall # NoCall /\ lastCall.q = ScenarioQuery) =>
    /\ lastCall.result.success
    /\ Len(lastCall.result.logs) = 1
    /\ lastCall.result.logs[1].logLevel = "ERROR"
    /\ "category" \in DOMAIN lastCall.result.logs[1]
    /\ lastCall.result.logs[1].category = "Database Issues"

(***************************************************************************)
(* More of the watcher claims (specification Spec).                        *)
(***************************************************************************)
\* C25 (as claimed): when the watcher is stopped the watcher map is empty, also when
\* stopWatching() was called while the checks of startWatching() were in flight: no
\* step creates a subscription while isWatching is false.
C25_StopFromStarting ==
  [][/\ ~isWatching' => \A s \in Services : watchers'[s] = NoWatcher
     /\ ~isWatching => {w.id : w \in subs'} \subseteq {w.id : w \in subs}]_vars

\* C29: the retry counter of every service that has one is an integer from 0 to
\* maxRetries, whatever error, ready, retry-timer, start and stop steps were taken
\* (a service with no entry in the map counts 0 retries).
C29_RetryCounterBounded ==
  \A s \in DOMAIN retryAttempts : retryAttempts[s] \in 0..maxRetries

\* C29, witness: after a stop and a restart, errors have brought the counter of a
\* service to maxRetries.
C29_Witness ==
  \E s \in Services :
    MapHas(retryAttempts, s) /\ retryAttempts[s] = maxRetries /\ stops > 0 /\ isWatching

(* Another cache claim (specification SpecCache). *)
\* The parameters of a query that its result depends on.
ResultParams ==
  {"userIds", "aliasNames", "date", "logLevels", "limit", "offset", "sortBy",
   "sortOrder", "groupBy", "includeMetadata"}

\* C26 (as claimed): a call served from the cache receives a result that was produced
\* for a query with the same userIds, aliasNames, date, logLevels, limit, offset,
\* sortBy, sortOrder, groupBy and includeMetadata as its own; two queries that differ
\* in sortOrder never share an entry.
C26_HitOnlyForSameQuery ==
  (lastCall # NoCall /\ lastCall.fromCache) =>
    \A f \in ResultParams : lastCall.result.config[f] = lastCall.q[f]

(* The claims about the published events (specification SpecEvents). *)
\* C27 (as claimed): from the return of stopWatching() to the next startWatching() no
\* step publishes an event, whatever was started before the stop: a reprocessing
\* pass, a background analysis, a connectivity test, a retry.
C27_SilentWhileStopped ==
  [][(~isWatching /\ stops > 0) => published' = published]_vars

\* The event types the claim lists; WATCHER_WARNING (the network paths are not
\* accessible) is counted with path-not-found.
ClaimedTypes ==
  {"FILE_ADDED", "FILE_DELETED", "LOG_UPDATED", "SERVICE_PATH_NOT_FOUND", "WATCHER_WARNING",
   "WATCHER_FAILED", "CRITICAL_ERROR_ALERT"}
\* The reprocessing passes of a service.
PassesOf(s) == passes[<<s, "app">>] + passes[<<s, "ui-app">>]
\* The step publishes one more event of the type for the service.
OneMore(type, s) == published'[<<type, s>>] = published[<<type, s>>] + 1

\* C28 (as claimed): every published event is of a listed type; each add notification
\* publishes one FILE_ADDED, each unlink notification one FILE_DELETED, each
\* reprocessing pass one LOG_UPDATED, each analysis that finds a CRITICAL entry one
\* critical alert, a missing path and a failed watcher their event; a step that
\* schedules a retry or makes a watcher ready (and resets the retry counter)
\* publishes nothing.
C28_EventsOnlyForTransitions ==
  [][/\ \A k \in EventKeys : published'[k] # published[k] => k[1] \in ClaimedTypes
     /\ \A s \in Services :
          /\ seen'[s].add # seen[s].add => OneMore("FILE_ADDED", s)
          /\ seen'[s].unlink # seen[s].unlink => OneMore("FILE_DELETED", s)
          /\ PassesOf(s)' # PassesOf(s) => OneMore("LOG_UPDATED", s)
          /\ seen'[s].critical # seen[s].critical => OneMore("CRITICAL_ERROR_ALERT", s)
          /\ (pathNotFound'[s] /\ ~pathNotFound[s]) => OneMore("SERVICE_PATH_NOT_FOUND", s)
          /\ (hasFailed'[s] /\ ~hasFailed[s]) => OneMore("WATCHER_FAILED", s)
          /\ RetryTimerCount(s)' > RetryTimerCount(s) => published' = published
     /\ (\E w \in subs' : w.ready /\ w \notin subs) => published' = published]_vars

(* The alias storage claim (specification SpecAlias). *)
\* C30 (as claimed): once every alias mutation issued through any instance has
\* completed (no write is in flight), the storage file holds every alias that was
\* added and not deleted.
C30_FileKeepsAliases ==
  saves = {} => kept \subseteq storageFile

====
